---- MODULE Spec2Model ----
(***************************************************************************)
(* Model of the resilient request executor of the Vantige TypeScript SDK:  *)
(* VantigeHttpClient (src/src/client/http-client.ts) with the error        *)
(* taxonomy it classifies into (src/unnamed/part_000, the errors module).  *)
(*                                                                         *)
(* One logical call is one invocation of get/post, i.e. one run of         *)
(* executeWithRetry.  A run suspends at two places: awaiting the transport *)
(* (pc = "Attempting") and awaiting the backoff timer (pc = "Retryable").  *)
(* The continuation that runs when the awaited promise settles is one      *)
(* atomic step, as in the single-threaded host.                            *)
(***************************************************************************)
EXTENDS Integers, Sequences, FiniteSets, TLC

(***************************************************************************)
(* Bounds of the model and constants of the program.                       *)
(***************************************************************************)
\* number of logical calls that may run concurrently on one executor
NumCalls == 2
\* z.number().min(0).max(5) on retries
RetriesMin == 0
RetriesMax == 5
\* Math.min(1000 * Math.pow(2, attempt), 10000)
BackoffBase == 1000
BackoffCap == 10000
\* statusCode || 500
DefaultStatus == 500
\* retries: config.retries || 3
DefaultRetries == 3
\* params.query.length > 1000
MaxQueryLength == 1000
\* params.topK < 1 || params.topK > 100
TopKMin == 1
TopKMax == 100
\* longest run of whitespace put before or after a text
MaxPad == 1

Calls == 1..NumCalls

(***************************************************************************)
(* Error taxonomy.                                                         *)
(***************************************************************************)
VantigeErrorCode ==
  { "INVALID_API_KEY", "EXPIRED_API_KEY", "INSUFFICIENT_PERMISSIONS",
    "RATE_LIMIT_EXCEEDED",
    "KNOWLEDGE_BASE_NOT_FOUND", "KNOWLEDGE_BASE_ACCESS_DENIED",
    "KNOWLEDGE_BASE_CREATION_FAILED", "KNOWLEDGE_BASE_IMPORT_FAILED",
    "INVALID_QUERY", "QUERY_TOO_LONG", "NO_RESULTS_FOUND", "QUERY_TIMEOUT",
    "DOCUMENT_NOT_FOUND", "DOCUMENT_UPLOAD_FAILED", "UNSUPPORTED_FILE_TYPE",
    "FILE_TOO_LARGE", "DOCUMENT_PROCESSING_FAILED",
    "CHAT_SESSION_NOT_FOUND", "CHAT_SESSION_EXPIRED", "INVALID_CHAT_MESSAGE",
    "NETWORK_ERROR", "REQUEST_TIMEOUT", "SERVICE_UNAVAILABLE",
    "VALIDATION_ERROR", "MISSING_REQUIRED_FIELD", "INVALID_FIELD_VALUE",
    "INTERNAL_SERVER_ERROR", "SERVICE_TEMPORARILY_UNAVAILABLE",
    "SDK_INITIALIZATION_ERROR", "UNSUPPORTED_OPERATION", "CONFIGURATION_ERROR" }

ErrorMessages ==
  [ code \in VantigeErrorCode |->
      CASE code = "INVALID_API_KEY" -> "The provided API key is invalid or malformed"
        [] code = "EXPIRED_API_KEY" -> "The API key has expired"
        [] code = "INSUFFICIENT_PERMISSIONS" -> "Insufficient permissions. This API key may not have the required scope for this operation"
        [] code = "RATE_LIMIT_EXCEEDED" -> "Rate limit exceeded. Please try again later"
        [] code = "KNOWLEDGE_BASE_NOT_FOUND" -> "Knowledge base not found"
        [] code = "KNOWLEDGE_BASE_ACCESS_DENIED" -> "Access denied to knowledge base"
        [] code = "KNOWLEDGE_BASE_CREATION_FAILED" -> "Failed to create knowledge base"
        [] code = "KNOWLEDGE_BASE_IMPORT_FAILED" -> "Failed to import data into knowledge base"
        [] code = "INVALID_QUERY" -> "The query is invalid or malformed"
        [] code = "QUERY_TOO_LONG" -> "Query exceeds maximum length limit"
        [] code = "NO_RESULTS_FOUND" -> "No results found for the query"
        [] code = "QUERY_TIMEOUT" -> "Query timed out"
        [] code = "DOCUMENT_NOT_FOUND" -> "Document not found"
        [] code = "DOCUMENT_UPLOAD_FAILED" -> "Document upload failed"
        [] code = "UNSUPPORTED_FILE_TYPE" -> "Unsupported file type"
        [] code = "FILE_TOO_LARGE" -> "File size exceeds maximum limit"
        [] code = "DOCUMENT_PROCESSING_FAILED" -> "Document processing failed"
        [] code = "CHAT_SESSION_NOT_FOUND" -> "Chat session not found"
        [] code = "CHAT_SESSION_EXPIRED" -> "Chat session has expired"
        [] code = "INVALID_CHAT_MESSAGE" -> "Invalid chat message format"
        [] code = "NETWORK_ERROR" -> "Network error occurred"
        [] code = "REQUEST_TIMEOUT" -> "Request timed out"
        [] code = "SERVICE_UNAVAILABLE" -> "Service is currently unavailable"
        [] code = "VALIDATION_ERROR" -> "Validation error"
        [] code = "MISSING_REQUIRED_FIELD" -> "Missing required field"
        [] code = "INVALID_FIELD_VALUE" -> "Invalid field value"
        [] code = "INTERNAL_SERVER_ERROR" -> "Internal server error"
        [] code = "SERVICE_TEMPORARILY_UNAVAILABLE" -> "Service temporarily unavailable"
        [] code = "SDK_INITIALIZATION_ERROR" -> "SDK initialization error"
        [] code = "UNSUPPORTED_OPERATION" -> "Unsupported operation"
        [] code = "CONFIGURATION_ERROR" -> "Configuration error" ]

(***************************************************************************)
(* JavaScript values of the `details` argument: undefined, one object, or  *)
(* an array.  items holds the entries; a lone object is its single entry.  *)
(***************************************************************************)
DetailsUndefined == [isArray |-> FALSE, items |-> <<>>]
DetailsObject(d) == [isArray |-> FALSE, items |-> <<d>>]
DetailsArray(s) == [isArray |-> TRUE, items |-> s]
\* truthiness of a details value: undefined is falsy, objects and arrays
\* (the empty array too) are truthy
Truthy(d) == d.isArray \/ d.items # <<>>

\* a||b on strings: the empty string (and undefined, modelled as "") is falsy
OrElse(a, b) == IF a # "" THEN a ELSE b

\* new VantigeSDKError(message, code, statusCode, details, requestId):
\* requestId "" stands for undefined.  timestamp defaults to
\* new Date().toISOString(): "now" for an error constructed during the
\* operation at hand.
VantigeSDKError(message, code, statusCode, details, requestId) ==
  [ code |-> code, message |-> message, statusCode |-> statusCode,
    details |-> details, requestId |-> requestId, timestamp |-> "now" ]

\* an error that was constructed before the operation at hand
CreatedEarlier(e) == [e EXCEPT !.timestamp = "earlier"]

\* the value of a `let lastError` not yet assigned, and of "nothing raised"
NoError == VantigeSDKError("", "", 0, <<>>, "")

\* createVantigeError(code, message?, statusCode?, details?, requestId?);
\* an omitted message is "", an omitted status is 0.
createVantigeError(code, message, statusCode, details, requestId) ==
  VantigeSDKError(
    OrElse(message, ErrorMessages[code]),
    code,
    IF statusCode # 0 THEN statusCode ELSE DefaultStatus,
    IF details.isArray THEN details.items
    ELSE IF Truthy(details) THEN details.items ELSE <<>>,
    requestId)

(***************************************************************************)
(* Raw failures a transport invocation can reject with.                    *)
(***************************************************************************)
NoData == [ errorMessage |-> "", message |-> "",
            errorDetails |-> DetailsUndefined, details |-> DetailsUndefined,
            requestId |-> "" ]

\* a rejection that is already a VantigeSDKError
SdkFailure(e) ==
  [ kind |-> "sdk", sdk |-> e, code |-> "", hasResponse |-> FALSE, status |-> 0,
    data |-> NoData, headerRequestId |-> "", message |-> e.message ]

\* an AxiosError without response (connection refused, DNS, abort)
AxiosNoResponse(code, message) ==
  [ kind |-> "axios", sdk |-> NoError, code |-> code, hasResponse |-> FALSE,
    status |-> 0, data |-> NoData, headerRequestId |-> "", message |-> message ]

\* an AxiosError carrying an HTTP response
AxiosResponse(status, data, headerRequestId, message) ==
  [ kind |-> "axios", sdk |-> NoError, code |-> "ERR_BAD_RESPONSE",
    hasResponse |-> TRUE, status |-> status, data |-> data,
    headerRequestId |-> headerRequestId, message |-> message ]

\* any other thrown value
OtherFailure(message) ==
  [ kind |-> "other", sdk |-> NoError, code |-> "", hasResponse |-> FALSE,
    status |-> 0, data |-> NoData, headerRequestId |-> "", message |-> message ]

NoFailure == OtherFailure("")

\* a wrong StatusToCode: the case for 404 is missing
StatusToCodeNo404(status) ==
  CASE status = 401 -> "INVALID_API_KEY"
    [] status = 403 -> "INSUFFICIENT_PERMISSIONS"
    [] status = 429 -> "RATE_LIMIT_EXCEEDED"
    [] status = 422 -> "VALIDATION_ERROR"
    [] status = 500 -> "INTERNAL_SERVER_ERROR"
    [] status = 503 -> "SERVICE_UNAVAILABLE"
    [] OTHER -> "NETWORK_ERROR"

\* switch (status) of handleError
StatusToCode(status) ==
  CASE status = 401 -> "INVALID_API_KEY"
    [] status = 403 -> "INSUFFICIENT_PERMISSIONS"
    [] status = 404 -> "KNOWLEDGE_BASE_NOT_FOUND"
    [] status = 429 -> "RATE_LIMIT_EXCEEDED"
    [] status = 422 -> "VALIDATION_ERROR"
    [] status = 500 -> "INTERNAL_SERVER_ERROR"
    [] status = 503 -> "SERVICE_UNAVAILABLE"
    [] OTHER -> "NETWORK_ERROR"

\* a wrong handleError: the ECONNABORTED test is missing
handleErrorNoTimeout(error) ==
  IF error.kind = "sdk" THEN error.sdk
  ELSE IF error.kind = "axios" THEN
    IF ~error.hasResponse THEN
      createVantigeError("NETWORK_ERROR", "Network error occurred", 0,
                         DetailsUndefined, "")
    ELSE
      createVantigeError(
        StatusToCode(error.status),
        OrElse(error.data.errorMessage, OrElse(error.data.message, error.message)),
        error.status,
        IF Truthy(error.data.errorDetails) THEN error.data.errorDetails
        ELSE error.data.details,
        OrElse(error.data.requestId, error.headerRequestId))
  ELSE
    createVantigeError("INTERNAL_SERVER_ERROR",
                       OrElse(error.message, "Unknown error occurred"), 0,
                       DetailsUndefined, "")

\* a wrong handleError: the instanceof VantigeSDKError test is missing, so
\* an error that is already translated is wrapped as an unknown error
handleErrorNoPassThrough(error) ==
  IF error.kind = "axios" THEN
    IF ~error.hasResponse THEN
      IF error.code = "ECONNABORTED"
      THEN createVantigeError("REQUEST_TIMEOUT", "Request timed out", 0,
                              DetailsUndefined, "")
      ELSE createVantigeError("NETWORK_ERROR", "Network error occurred", 0,
                              DetailsUndefined, "")
    ELSE
      createVantigeError(
        StatusToCode(error.status),
        OrElse(error.data.errorMessage, OrElse(error.data.message, error.message)),
        error.status,
        IF Truthy(error.data.errorDetails) THEN error.data.errorDetails
        ELSE error.data.details,
        OrElse(error.data.requestId, error.headerRequestId))
  ELSE
    createVantigeError("INTERNAL_SERVER_ERROR",
                       OrElse(error.message, "Unknown error occurred"), 0,
                       DetailsUndefined, "")

\* a wrong handleError: the top-level message of the body is preferred to
\* the nested one
handleErrorTopLevelFirst(error) ==
  IF error.kind = "sdk" THEN error.sdk
  ELSE IF error.kind = "axios" THEN
    IF ~error.hasResponse THEN
      IF error.code = "ECONNABORTED"
      THEN createVantigeError("REQUEST_TIMEOUT", "Request timed out", 0,
                              DetailsUndefined, "")
      ELSE createVantigeError("NETWORK_ERROR", "Network error occurred", 0,
                              DetailsUndefined, "")
    ELSE
      createVantigeError(
        StatusToCode(error.status),
        OrElse(error.data.message, OrElse(error.data.errorMessage, error.message)),
        error.status,
        IF Truthy(error.data.errorDetails) THEN error.data.errorDetails
        ELSE error.data.details,
        OrElse(error.data.requestId, error.headerRequestId))
  ELSE
    createVantigeError("INTERNAL_SERVER_ERROR",
                       OrElse(error.message, "Unknown error occurred"), 0,
                       DetailsUndefined, "")

\* a wrong handleError: an unknown thrown value loses its message
handleErrorDropsMessage(error) ==
  IF error.kind = "sdk" THEN error.sdk
  ELSE IF error.kind = "axios" THEN
    IF ~error.hasResponse THEN
      IF error.code = "ECONNABORTED"
      THEN createVantigeError("REQUEST_TIMEOUT", "Request timed out", 0,
                              DetailsUndefined, "")
      ELSE createVantigeError("NETWORK_ERROR", "Network error occurred", 0,
                              DetailsUndefined, "")
    ELSE
      createVantigeError(
        StatusToCode(error.status),
        OrElse(error.data.errorMessage, OrElse(error.data.message, error.message)),
        error.status,
        IF Truthy(error.data.errorDetails) THEN error.data.errorDetails
        ELSE error.data.details,
        OrElse(error.data.requestId, error.headerRequestId))
  ELSE
    createVantigeError("INTERNAL_SERVER_ERROR", "", 0, DetailsUndefined, "")

\* handleError(error): the translation pipeline
handleError(error) ==
  IF error.kind = "sdk" THEN error.sdk
  ELSE IF error.kind = "axios" THEN
    IF ~error.hasResponse THEN
      IF error.code = "ECONNABORTED"
      THEN createVantigeError("REQUEST_TIMEOUT", "Request timed out", 0,
                              DetailsUndefined, "")
      ELSE createVantigeError("NETWORK_ERROR", "Network error occurred", 0,
                              DetailsUndefined, "")
    ELSE
      createVantigeError(
        StatusToCode(error.status),
        OrElse(error.data.errorMessage, OrElse(error.data.message, error.message)),
        error.status,
        IF Truthy(error.data.errorDetails) THEN error.data.errorDetails
        ELSE error.data.details,
        OrElse(error.data.requestId, error.headerRequestId))
  ELSE
    createVantigeError("INTERNAL_SERVER_ERROR",
                       OrElse(error.message, "Unknown error occurred"), 0,
                       DetailsUndefined, "")

\* const nonRetryableErrors = [...]
nonRetryableErrors ==
  { "INVALID_API_KEY", "INSUFFICIENT_PERMISSIONS", "VALIDATION_ERROR",
    "KNOWLEDGE_BASE_NOT_FOUND" }


\* Math.pow(2, n)
RECURSIVE Pow2(_)
Pow2(n) == IF n <= 0 THEN 1 ELSE 2 * Pow2(n - 1)

Min(a, b) == IF a < b THEN a ELSE b

(***************************************************************************)
(* What the transport can answer.                                          *)
(***************************************************************************)
\* decoded response bodies ({success: bool, ...payload}); NoBody: no value
Bodies == { [present |-> TRUE, success |-> TRUE],
            [present |-> TRUE, success |-> FALSE] }
NoBody == [present |-> FALSE, success |-> FALSE]

\* the response interceptor: (error) => Promise.reject(this.handleError(error))
Intercept(error) == SdkFailure(handleError(error))

HttpStatuses == {401, 403, 404, 422, 429, 500, 503, 502}

RawFailures ==
  { AxiosResponse(s, NoData, "", "Request failed") : s \in HttpStatuses }
  \cup { AxiosNoResponse("ECONNABORTED", "timeout exceeded"),
         AxiosNoResponse("ERR_NETWORK", "Network Error"),
         OtherFailure("Generic error") }

\* rejections seen by executeWithRetry: raw failures (a transport without the
\* interceptor, as in the tests' mock), failures the interceptor translated
\* first, and a VantigeSDKError of a kind handleError never produces
TransportFailures ==
  RawFailures
  \cup { Intercept(AxiosResponse(401, NoData, "", "Request failed")),
         Intercept(AxiosNoResponse("ERR_NETWORK", "Network Error")),
         SdkFailure(CreatedEarlier(
           createVantigeError("QUERY_TIMEOUT", "", 0, DetailsUndefined, ""))) }

\* how a transport invocation settled: "pending", "resolved" with the
\* response's data, or "rejected" with a failure
Pending == [state |-> "pending", data |-> NoBody, error |-> NoFailure]
Resolved(body) == [state |-> "resolved", data |-> body, error |-> NoFailure]
Rejected(error) == [state |-> "rejected", data |-> NoBody, error |-> error]

(***************************************************************************)
(* State.                                                                  *)
(***************************************************************************)
VARIABLES
  config,     \* this.config of the VantigeHttpClient (read-only after construction)
  calls,      \* the logical calls the application issues on this executor
  pc,         \* per call: "idle", "Attempting", "Retryable", "Success", "Fatal"
  attempt,    \* per call: the loop variable of executeWithRetry
  lastError,  \* per call: the local lastError of executeWithRetry
  settled,    \* per call: how the latest transport invocation settled
  result,     \* per call: the body returned to the caller
  raised,     \* per call: the error thrown to the caller
  timer,      \* per call: the pending setTimeout delay in ms (0: none)
  trace,      \* per call: the events of the call, in order
  \* the translation pipeline applied to one failure
  failure,       \* the raw failure handed to the response interceptor
  classified,    \* what the interceptor rejects with: handleError(failure)
  reclassified,  \* what executeWithRetry makes of that rejection
  classifyPc,    \* "off", "raw", "intercepted", "caught"
  \* one operation of the VantigeClient, run on call 1 of the executor
  invocation,    \* the operation invoked and its arguments
  clientPc,      \* "off", "idle", "awaiting", "returned", "thrown"
  sent,          \* the request handed to httpClient.get / post
  clientResult,  \* the response the operation returns
  clientError,   \* the error the operation throws
  \* one credential: VantigeAuth and its static validateKeyFormat
  rawKey,        \* the string given as API key
  auth,          \* the VantigeAuth instance (its apiKey and isTestKey)
  authPc,        \* "off", "start", "constructed", "failed", "masked"
  keyCheck,      \* what validateKeyFormat(rawKey) returned
  authError,     \* the error new VantigeAuth(rawKey) threw
  masked,        \* what maskApiKey() returned
  \* one error made with createVantigeError
  errorArgs,     \* the arguments of createVantigeError
  errorRecord,   \* toJSON() of the error made
  errorPc,       \* "off", "start", "made"
  \* the construction of one VantigeClient
  given,         \* how the client is made: constructor or factory, and the config
  ctorPc,        \* "off", "start", "constructed", "failed"
  ctorError,     \* the error the construction threw
  \* one use of createKnowledgeBaseTools
  knowledgeBases,  \* the knowledgeBases argument: a list of {id, name, description}
  version,         \* the version argument: "v4" or "v5"
  tools,           \* the object returned: a set of [key, tool] entries
  toolsPc          \* "off", "start", "returned"

execVars == << config, calls, pc, attempt, lastError, settled, result,
               raised, timer, trace >>

classifyVars == << failure, classified, reclassified, classifyPc >>

clientVars == << invocation, clientPc, sent, clientResult, clientError >>

authVars == << rawKey, auth, authPc, keyCheck, authError, masked >>

errorVars == << errorArgs, errorRecord, errorPc >>

ctorVars == << given, ctorPc, ctorError >>

toolVars == << knowledgeBases, version, tools, toolsPc >>

vars == << config, calls, pc, attempt, lastError, settled, result,
           raised, timer, trace, classifyVars, clientVars,
           authVars, errorVars, ctorVars, toolVars >>

\* an observed event of a call: "invoke" (operation() called), "resolve",
\* "reject" (callerFixable: the classified kind is InvalidApiKey,
\* InsufficientPermissions, ValidationError or KnowledgeBaseNotFound),
\* "delay" (a backoff of ms milliseconds was awaited to its end)
Event(ev, ms, callerFixable) == [ev |-> ev, ms |-> ms, callerFixable |-> callerFixable]
Invoked == Event("invoke", 0, FALSE)

\* number of events of kind ev in a call's trace
Count(t, ev) == Cardinality({ i \in DOMAIN t : t[i].ev = ev })

\* the delays awaited by a call, in order
RECURSIVE Delays(_)
Delays(t) ==
  IF t = <<>> THEN <<>>
  ELSE IF Head(t).ev = "delay" THEN <<Head(t).ms>> \o Delays(Tail(t))
  ELSE Delays(Tail(t))

(***************************************************************************)
(* Arguments of the client's operations.                                   *)
(***************************************************************************)
\* a string as the client observes it: lead whitespace characters, then
\* core characters that start and end with a non-whitespace one, then trail
\* whitespace characters; an all-whitespace string has core = trail = 0
Text(lead, core, trail) == [lead |-> lead, core |-> core, trail |-> trail]
EmptyText == Text(0, 0, 0)
\* s.length
Length(s) == s.lead + s.core + s.trail
\* s.trim()
Trim(s) == Text(0, s.core, 0)

\* an optional argument: undefined, or a supplied value
Absent == [present |-> FALSE, value |-> 0]
AbsentFlag == [present |-> FALSE, value |-> FALSE]
Supplied(v) == [present |-> TRUE, value |-> v]

NoInvocation ==
  [ op |-> "none", corpusId |-> EmptyText, query |-> EmptyText, topK |-> Absent,
    page |-> Absent, limit |-> Absent, includeArchived |-> AbsentFlag ]

NoRequest == [method |-> "none", url |-> "", id |-> EmptyText,
              params |-> <<>>, body |-> NoInvocation]

\* the translation pipeline is not exercised
ClassifyOff ==
  /\ failure = NoFailure
  /\ classified = NoError
  /\ reclassified = NoError
  /\ classifyPc = "off"

\* no operation of the VantigeClient is exercised
ClientOff ==
  /\ invocation = NoInvocation
  /\ clientPc = "off"
  /\ sent = NoRequest
  /\ clientResult = NoBody
  /\ clientError = NoError

\* a VantigeAuth that was not constructed
NoAuth == [exists |-> FALSE, apiKey |-> "", isTestKey |-> FALSE]

\* validateKeyFormat was not called
NoKeyCheck == [done |-> FALSE, isValid |-> FALSE, environment |-> "unset", errors |-> << >>]

\* no credential is exercised
AuthOff ==
  /\ rawKey = ""
  /\ auth = NoAuth
  /\ authPc = "off"
  /\ keyCheck = NoKeyCheck
  /\ authError = NoError
  /\ masked = ""

NoErrorArgs ==
  [ code |-> "", message |-> "", statusCode |-> 0, details |-> DetailsUndefined,
    requestId |-> "" ]

NoErrorRecord ==
  [ name |-> "", message |-> "", code |-> "", statusCode |-> 0, details |-> << >>,
    requestId |-> "", timestamp |-> "", stack |-> "" ]

\* no error is made on its own
ErrorsOff ==
  /\ errorArgs = NoErrorArgs
  /\ errorRecord = NoErrorRecord
  /\ errorPc = "off"

\* an optional string argument that was not supplied
AbsentText == [present |-> FALSE, value |-> ""]

NoGiven ==
  [ via |-> "none", apiKey |-> "", retries |-> Absent, timeout |-> Absent,
    optionsApiKey |-> AbsentText ]

\* createKnowledgeBaseTools is not used
ToolsOff ==
  /\ knowledgeBases = << >>
  /\ version = "v5"
  /\ tools = { }
  /\ toolsPc = "off"

\* no VantigeClient is being constructed: the executor exists from the start
CtorOff ==
  /\ given = NoGiven
  /\ ctorPc = "off"
  /\ ctorError = NoError


HttpClientConfig(retries) ==
  [ baseUrl |-> "https://api.vantige.ai", timeout |-> 30000,
    retries |-> retries, auth |-> "Bearer vk_test_key", debug |-> FALSE ]

InitCalls(issued) ==
  /\ config \in { HttpClientConfig(n) : n \in RetriesMin..RetriesMax }
  /\ calls = issued
  /\ pc = [c \in Calls |-> "idle"]
  /\ attempt = [c \in Calls |-> 0]
  /\ lastError = [c \in Calls |-> NoError]
  /\ settled = [c \in Calls |-> Pending]
  /\ result = [c \in Calls |-> NoBody]
  /\ raised = [c \in Calls |-> NoError]
  /\ timer = [c \in Calls |-> 0]
  /\ trace = [c \in Calls |-> <<>>]

\* one logical call on the executor
Init ==
  InitCalls({1}) /\ ClassifyOff /\ ClientOff /\ AuthOff /\ ErrorsOff /\ CtorOff /\ ToolsOff

(***************************************************************************)
(* executeWithRetry.                                                       *)
(***************************************************************************)
\* the head of `for (...; attempt <= this.config.retries; ...)` reached with
\* attempt = a and the events t so far: either operation() is invoked, or
\* the loop is left and `throw lastError!` runs
LoopHead(c, a, t) ==
  IF a <= config.retries
  THEN /\ pc' = [pc EXCEPT ![c] = "Attempting"]
       /\ trace' = [trace EXCEPT ![c] = Append(t, Invoked)]
       /\ raised' = raised
  ELSE /\ pc' = [pc EXCEPT ![c] = "Fatal"]
       /\ trace' = [trace EXCEPT ![c] = t]
       /\ raised' = [raised EXCEPT ![c] = lastError[c]]

\* executeWithRetry(operation) is entered: attempt = 0 and the loop head
Start(c) ==
  /\ c \in calls
  /\ pc[c] = "idle"
  /\ attempt' = [attempt EXCEPT ![c] = 0]
  /\ LoopHead(c, 0, trace[c])
  /\ UNCHANGED << config, calls, lastError, settled, result, timer >>

\* get(url): operation is () => this.client.get(url), then res.data
get(c) == Start(c) /\ UNCHANGED << classifyVars, clientVars, authVars, errorVars, ctorVars, toolVars >>

\* post(url, data): operation is () => this.client.post(url, data), then
\* res.data; the retry loop is the same, only the transport method differs
post(c) == Start(c) /\ UNCHANGED << classifyVars, clientVars, authVars, errorVars, ctorVars, toolVars >>

\* a wrong TransportResolves: the value of operation() is kept but the
\* `return` is missing, so the loop goes on to its next iteration
TransportResolvesNoReturn(c) ==
  /\ c \in calls
  /\ pc[c] = "Attempting"
  /\ \E body \in Bodies :
       /\ settled' = [settled EXCEPT ![c] = Resolved(body)]
       /\ result' = [result EXCEPT ![c] = body]
  /\ attempt' = [attempt EXCEPT ![c] = @ + 1]
  /\ LoopHead(c, attempt[c] + 1, Append(trace[c], Event("resolve", 0, FALSE)))
  /\ UNCHANGED << classifyVars, clientVars, authVars, errorVars, ctorVars, toolVars, config, calls, lastError, timer >>

\* `return await operation()` when the transport resolves: res.data is returned
TransportResolves(c) ==
  /\ c \in calls
  /\ pc[c] = "Attempting"
  /\ \E body \in Bodies :
       /\ settled' = [settled EXCEPT ![c] = Resolved(body)]
       /\ result' = [result EXCEPT ![c] = body]
  /\ pc' = [pc EXCEPT ![c] = "Success"]
  /\ trace' = [trace EXCEPT ![c] = Append(@, Event("resolve", 0, FALSE))]
  /\ UNCHANGED << classifyVars, clientVars, authVars, errorVars, ctorVars, toolVars, config, calls, attempt, lastError, raised, timer >>

\* lastError = error instanceof VantigeSDKError ? error : this.handleError(error)
\* a wrong Classify: a VantigeSDKError is wrapped again and keeps only its
\* kind and message
ClassifyRewraps(error) ==
  IF error.kind = "sdk"
  THEN createVantigeError(error.sdk.code, error.sdk.message, 0, DetailsUndefined, "")
  ELSE handleError(error)

Classify(error) == IF error.kind = "sdk" THEN error.sdk ELSE handleError(error)

\* a wrong CatchDecision: the last-attempt test is off by one
CatchDecisionOffByOne(err, a, retries) ==
  IF err.code \in nonRetryableErrors THEN "throw"
  ELSE IF a + 1 = retries THEN "throw"
  ELSE "retry"

\* a wrong CatchDecision: the last-attempt test is missing
CatchDecisionNoLastAttempt(err, a, retries) ==
  IF err.code \in nonRetryableErrors THEN "throw"
  ELSE "retry"

\* a wrong CatchDecision: the budget is tested before the kind, and a
\* non-retryable kind is retried while budget remains
CatchDecisionBudgetOnly(err, a, retries) ==
  IF a = retries THEN "throw"
  ELSE "retry"

\* a wrong CatchDecision: rate limiting is treated as caller-fixable
CatchDecisionNoRateLimit(err, a, retries) ==
  IF err.code \in nonRetryableErrors \cup {"RATE_LIMIT_EXCEEDED"} THEN "throw"
  ELSE IF a = retries THEN "throw"
  ELSE "retry"

\* a wrong CatchDecision: the last attempt is recognised one attempt late,
\* after its backoff delay has been awaited
CatchDecisionLastAttemptLate(err, a, retries) ==
  IF err.code \in nonRetryableErrors THEN "throw"
  ELSE IF a > retries THEN "throw"
  ELSE "retry"

\* the decision of the catch block: "throw" or "retry"
CatchDecision(err, a, retries) ==
  IF err.code \in nonRetryableErrors THEN "throw"
  ELSE IF a = retries THEN "throw"
  ELSE "retry"

\* a wrong BackoffDelay: the cap is missing
BackoffDelayUncapped(a) == BackoffBase * Pow2(a)

\* const delay = Math.min(1000 * Math.pow(2, attempt), 10000)
BackoffDelay(a) == Min(BackoffBase * Pow2(a), BackoffCap)

\* the kinds the specification calls caller-fixable, not transient
CallerFixableKinds ==
  { "INVALID_API_KEY", "INSUFFICIENT_PERMISSIONS", "VALIDATION_ERROR",
    "KNOWLEDGE_BASE_NOT_FOUND" }

\* the observation of a rejection classified as err
RejectedWith(err) == Event("reject", 0, err.code \in CallerFixableKinds)

\* a wrong Catch: lastError is assigned only once (lastError = lastError || ...)
CatchKeepFirst(c, error) ==
  LET err == IF lastError[c] # NoError THEN lastError[c] ELSE Classify(error) IN
  /\ settled' = [settled EXCEPT ![c] = Rejected(error)]
  /\ lastError' = [lastError EXCEPT ![c] = err]
  /\ trace' = [trace EXCEPT ![c] = Append(@, RejectedWith(err))]
  /\ IF CatchDecision(err, attempt[c], config.retries) = "throw"
     THEN /\ pc' = [pc EXCEPT ![c] = "Fatal"]
          /\ raised' = [raised EXCEPT ![c] = err]
          /\ timer' = timer
     ELSE /\ pc' = [pc EXCEPT ![c] = "Retryable"]
          /\ raised' = raised
          /\ timer' = [timer EXCEPT ![c] = BackoffDelay(attempt[c])]
  /\ UNCHANGED << classifyVars, clientVars, authVars, errorVars, ctorVars, toolVars, config, calls, attempt, result >>

\* a wrong Catch: the backoff promise is created but not awaited, so the
\* loop goes on to its next iteration at once
CatchNoAwait(c, error) ==
  LET err == Classify(error) IN
  /\ settled' = [settled EXCEPT ![c] = Rejected(error)]
  /\ lastError' = [lastError EXCEPT ![c] = err]
  /\ result' = result
  /\ IF CatchDecision(err, attempt[c], config.retries) = "throw"
     THEN /\ pc' = [pc EXCEPT ![c] = "Fatal"]
          /\ raised' = [raised EXCEPT ![c] = err]
          /\ trace' = [trace EXCEPT ![c] = Append(@, RejectedWith(err))]
          /\ UNCHANGED << timer, attempt >>
     ELSE /\ timer' = [timer EXCEPT ![c] = BackoffDelay(attempt[c])]
          /\ attempt' = [attempt EXCEPT ![c] = @ + 1]
          /\ LoopHead(c, attempt[c] + 1, Append(trace[c], RejectedWith(err)))
  /\ UNCHANGED << classifyVars, clientVars, authVars, errorVars, ctorVars, toolVars, config, calls >>

\* the catch block of executeWithRetry when the transport rejects with error
Catch(c, error) ==
  LET err == Classify(error) IN
  /\ settled' = [settled EXCEPT ![c] = Rejected(error)]
  /\ lastError' = [lastError EXCEPT ![c] = err]
  /\ trace' = [trace EXCEPT ![c] = Append(@, RejectedWith(err))]
  /\ IF CatchDecision(err, attempt[c], config.retries) = "throw"
     THEN /\ pc' = [pc EXCEPT ![c] = "Fatal"]
          /\ raised' = [raised EXCEPT ![c] = err]
          /\ timer' = timer
     ELSE /\ pc' = [pc EXCEPT ![c] = "Retryable"]
          /\ raised' = raised
          /\ timer' = [timer EXCEPT ![c] = BackoffDelay(attempt[c])]
  /\ UNCHANGED << classifyVars, clientVars, authVars, errorVars, ctorVars, toolVars, config, calls, attempt, result >>

TransportRejects(c) ==
  /\ c \in calls
  /\ pc[c] = "Attempting"
  /\ \E error \in TransportFailures : Catch(c, error)

\* a wrong BackoffElapsed: the timer callback never resolves the promise
BackoffNeverResolves(c) ==
  /\ c \in calls
  /\ pc[c] = "Retryable"
  /\ UNCHANGED vars

\* a wrong BackoffElapsed: attempt is a field of the executor shared by all
\* of its calls instead of a local of executeWithRetry
BackoffElapsedSharedAttempt(c) ==
  /\ c \in calls
  /\ pc[c] = "Retryable"
  /\ timer' = [timer EXCEPT ![c] = 0]
  /\ attempt' = [d \in Calls |-> attempt[c] + 1]
  /\ LoopHead(c, attempt[c] + 1, Append(trace[c], Event("delay", timer[c], FALSE)))
  /\ UNCHANGED << classifyVars, clientVars, authVars, errorVars, ctorVars, toolVars, config, calls, lastError, settled, result >>

\* the setTimeout of the backoff fires: the awaited promise resolves, the
\* loop runs attempt++ and returns to its head
BackoffElapsed(c) ==
  /\ c \in calls
  /\ pc[c] = "Retryable"
  /\ timer' = [timer EXCEPT ![c] = 0]
  /\ attempt' = [attempt EXCEPT ![c] = @ + 1]
  /\ LoopHead(c, attempt[c] + 1, Append(trace[c], Event("delay", timer[c], FALSE)))
  /\ UNCHANGED << classifyVars, clientVars, authVars, errorVars, ctorVars, toolVars, config, calls, lastError, settled, result >>

Next ==
  \/ \E c \in Calls : get(c)
  \/ \E c \in Calls : post(c)
  \/ \E c \in Calls : TransportResolves(c)
  \/ \E c \in Calls : TransportRejects(c)
  \/ \E c \in Calls : BackoffElapsed(c)

Spec == Init /\ [][Next]_vars

\* every call the application issues runs concurrently on the one executor
InitConc ==
  /\ InitCalls(Calls)
  /\ config.retries \in {0, 1}
  /\ ClassifyOff
  /\ ClientOff
  /\ AuthOff
  /\ ErrorsOff
  /\ CtorOff
  /\ ToolsOff

SpecConc == InitConc /\ [][Next]_vars

\* every transport invocation and every backoff timer eventually settles
Fairness ==
  \A c \in Calls :
    /\ WF_vars(TransportResolves(c) \/ TransportRejects(c))
    /\ WF_vars(BackoffElapsed(c))

LiveSpec == Init /\ [][Next]_vars /\ Fairness

(***************************************************************************)
(* The translation pipeline on one failure.                                *)
(***************************************************************************)
ClassifyStatuses == {400, 401, 403, 404, 408, 418, 422, 429, 500, 502, 503, 504}

\* response bodies of failed requests: {error: {message, details}},
\* {message, details}, meta.requestId, each present or not
ResponseData ==
  [ errorMessage : {"", "nested message"},
    message : {"", "top-level message"},
    errorDetails : { DetailsUndefined, DetailsObject("field"),
                     DetailsArray(<< "a", "b" >>), DetailsArray(<< >>) },
    details : { DetailsUndefined, DetailsObject("top") },
    requestId : {"", "req-meta"} ]

ClassifyInputs ==
  { AxiosResponse(st, d, h, "Request failed") :
      st \in ClassifyStatuses, d \in ResponseData, h \in {"", "req-header"} }
  \cup { AxiosNoResponse(code, m) :
           code \in {"ECONNABORTED", "ERR_NETWORK", "ECONNREFUSED", "ETIMEDOUT", ""},
           m \in {"timeout of 30000ms exceeded", "Network Error"} }
  \cup { OtherFailure(m) : m \in {"Generic error", ""} }
  \cup { SdkFailure(CreatedEarlier(createVantigeError(code, m, st, DetailsUndefined, ""))) :
           code \in {"NETWORK_ERROR", "VALIDATION_ERROR", "QUERY_TIMEOUT"},
           m \in {"", "Existing"}, st \in {0, 418} }

InitClassify ==
  /\ InitCalls({})
  /\ config = HttpClientConfig(DefaultRetries)
  /\ ClientOff
  /\ AuthOff
  /\ ErrorsOff
  /\ CtorOff
  /\ ToolsOff
  /\ failure \in ClassifyInputs
  /\ classified = NoError
  /\ reclassified = NoError
  /\ classifyPc = "raw"

\* the response interceptor rejects with this.handleError(error)
InterceptorRejects ==
  /\ classifyPc = "raw"
  /\ classified' = handleError(failure)
  /\ classifyPc' = "intercepted"
  /\ UNCHANGED << failure, reclassified, execVars, clientVars,
               authVars, errorVars, ctorVars, toolVars >>

\* the catch block of executeWithRetry receives the interceptor's rejection
ExecutorCatches ==
  /\ classifyPc = "intercepted"
  /\ reclassified' = Classify(SdkFailure(classified))
  /\ classifyPc' = "caught"
  /\ UNCHANGED << failure, classified, execVars, clientVars,
               authVars, errorVars, ctorVars, toolVars >>

\* the catch block of executeWithRetry receives the failure itself (a
\* transport on which the interceptor did not run, as the tests' mock)
ExecutorCatchesRaw ==
  /\ classifyPc = "raw"
  /\ reclassified' = Classify(failure)
  /\ classifyPc' = "caughtRaw"
  /\ UNCHANGED << failure, classified, execVars, clientVars,
               authVars, errorVars, ctorVars, toolVars >>

NextClassify ==
  \/ InterceptorRejects
  \/ ExecutorCatches
  \/ ExecutorCatchesRaw

SpecClassify == InitClassify /\ [][NextClassify]_vars

(***************************************************************************)
(* The VantigeClient: listKnowledgeBases and query on call 1.              *)
(***************************************************************************)
\* query texts: blank ones, and texts whose trimmed length is around the bound
QueryTexts ==
  { Text(l, 0, 0) : l \in 0..MaxPad }
  \cup { Text(l, n, t) :
           l \in 0..MaxPad, t \in 0..MaxPad,
           n \in {1, MaxQueryLength - 1, MaxQueryLength, MaxQueryLength + 1} }

\* corpus ids: "", whitespace only, and a 10-character id with or without
\* whitespace before it
CorpusIds == { Text(l, n, 0) : l \in 0..MaxPad, n \in {0, 10} }

TopKs == { Absent } \cup { Supplied(k) : k \in {TopKMin - 1, TopKMin, TopKMax, TopKMax + 1} }

QueryInvocations ==
  { [ op |-> "query", corpusId |-> id, query |-> q, topK |-> k,
      page |-> Absent, limit |-> Absent, includeArchived |-> AbsentFlag ] :
      id \in CorpusIds, q \in QueryTexts, k \in TopKs }

ListInvocations ==
  { [ op |-> "list", corpusId |-> EmptyText, query |-> EmptyText, topK |-> Absent,
      page |-> pg, limit |-> lm, includeArchived |-> ia ] :
      pg \in { Absent, Supplied(0), Supplied(1), Supplied(2) },
      lm \in { Absent, Supplied(0), Supplied(1), Supplied(20) },
      ia \in { AbsentFlag, Supplied(TRUE), Supplied(FALSE) } }

\* the retries the VantigeClient gives its VantigeHttpClient: config.retries || 3
ClientRetries(retries) ==
  IF retries.present /\ retries.value # 0 THEN retries.value ELSE DefaultRetries

\* a client built with retries omitted, 0 or 1, about to run one operation
InitClient ==
  /\ InitCalls({1})
  /\ config \in { HttpClientConfig(ClientRetries(r)) :
                    r \in { Absent, Supplied(0), Supplied(1) } }
  /\ ClassifyOff
  /\ AuthOff
  /\ ErrorsOff
  /\ CtorOff
  /\ ToolsOff
  /\ invocation \in QueryInvocations \cup ListInvocations
  /\ clientPc = "idle"
  /\ sent = NoRequest
  /\ clientResult = NoBody
  /\ clientError = NoError

\* Number.prototype.toString() of a natural number
Digits == << "0", "1", "2", "3", "4", "5", "6", "7", "8", "9" >>
RECURSIVE NumberToString(_)
NumberToString(n) ==
  IF n < 10 THEN Digits[n + 1]
  ELSE NumberToString(n \div 10) \o Digits[(n % 10) + 1]

\* Boolean.prototype.toString()
BooleanToString(b) == IF b THEN "true" ELSE "false"

\* the URLSearchParams listKnowledgeBases fills: a sequence of <<name, value>>
QueryParams(params) ==
  (IF params.page.present /\ params.page.value # 0
   THEN << << "page", NumberToString(params.page.value) >> >> ELSE << >>)
  \o (IF params.limit.present /\ params.limit.value # 0
      THEN << << "limit", NumberToString(params.limit.value) >> >> ELSE << >>)
  \o (IF params.includeArchived.present
      THEN << << "includeArchived", BooleanToString(params.includeArchived.value) >> >>
      ELSE << >>)

\* URLSearchParams.toString(): name=value joined by &
RECURSIVE QueryString(_)
QueryString(qp) ==
  IF qp = << >> THEN ""
  ELSE Head(qp)[1] \o "=" \o Head(qp)[2]
       \o (IF Tail(qp) = << >> THEN "" ELSE "&" \o QueryString(Tail(qp)))

\* a wrong ListUrl: the "?" is written whether or not there is a query string
ListUrlAlwaysQuery(qp) == "/api/v1/knowledge-base" \o "?" \o QueryString(qp)

\* `/api/v1/knowledge-base${queryString ? `?${queryString}` : ""}`
ListUrl(qp) ==
  "/api/v1/knowledge-base" \o (IF QueryString(qp) # "" THEN "?" \o QueryString(qp) ELSE "")

\* listKnowledgeBases(params) up to its await: build the url, httpClient.get(url)
listKnowledgeBases ==
  /\ clientPc = "idle"
  /\ invocation.op = "list"
  /\ sent' = [ method |-> "get", url |-> ListUrl(QueryParams(invocation)),
               id |-> EmptyText, params |-> QueryParams(invocation),
               body |-> NoInvocation ]
  /\ Start(1)
  /\ clientPc' = "awaiting"
  /\ UNCHANGED << invocation, clientResult, clientError, classifyVars,
               authVars, errorVars, ctorVars, toolVars >>

\* a wrong QueryValidation: the length bound is applied to the trimmed text
QueryValidationTrimmedBound(corpusId, text, topK) ==
  IF Length(corpusId) = 0 THEN "Corpus ID is required"
  ELSE IF Length(text) = 0 \/ Length(Trim(text)) = 0 THEN "Query is required"
  ELSE IF Length(Trim(text)) > MaxQueryLength THEN "Query must be 1000 characters or less"
  ELSE IF topK.present /\ (topK.value < TopKMin \/ topK.value > TopKMax)
    THEN "topK must be between 1 and 100"
  ELSE ""

\* a wrong QueryValidation: `params.topK && (...)`, so that 0 counts as unset
QueryValidationTopKTruthy(corpusId, text, topK) ==
  IF Length(corpusId) = 0 THEN "Corpus ID is required"
  ELSE IF Length(text) = 0 \/ Length(Trim(text)) = 0 THEN "Query is required"
  ELSE IF Length(text) > MaxQueryLength THEN "Query must be 1000 characters or less"
  ELSE IF topK.present /\ topK.value # 0
          /\ (topK.value < TopKMin \/ topK.value > TopKMax)
    THEN "topK must be between 1 and 100"
  ELSE ""

\* the checks query() makes before its request, in order: the message of the
\* first one that fails, "" when all pass
QueryValidation(corpusId, text, topK) ==
  IF Length(corpusId) = 0 THEN "Corpus ID is required"
  ELSE IF Length(text) = 0 \/ Length(Trim(text)) = 0 THEN "Query is required"
  ELSE IF Length(text) > MaxQueryLength THEN "Query must be 1000 characters or less"
  ELSE IF topK.present /\ (topK.value < TopKMin \/ topK.value > TopKMax)
    THEN "topK must be between 1 and 100"
  ELSE ""

\* query(corpusId, params) up to its await: validate, then httpClient.post
query ==
  /\ clientPc = "idle"
  /\ invocation.op = "query"
  /\ LET problem == QueryValidation(invocation.corpusId, invocation.query,
                                    invocation.topK)
     IN IF problem # ""
        THEN /\ clientPc' = "thrown"
             /\ clientError' = createVantigeError("VALIDATION_ERROR", problem, 0,
                                                  DetailsUndefined, "")
             /\ UNCHANGED << execVars, sent >>
        ELSE /\ sent' = [ method |-> "post", url |-> "/api/v1/knowledge-base/{corpusId}/query",
                          id |-> invocation.corpusId, params |-> << >>,
                          body |-> invocation ]
             /\ Start(1)
             /\ clientPc' = "awaiting"
             /\ clientError' = clientError
  /\ UNCHANGED << invocation, clientResult, classifyVars,
               authVars, errorVars, ctorVars, toolVars >>

\* a wrong AfterResponse: the success flag of the body is not looked at
AfterResponseIgnoresFlag(failMessage) ==
  /\ clientPc = "awaiting"
  /\ pc[1] \in {"Success", "Fatal"}
  /\ IF pc[1] = "Fatal"
     THEN /\ clientPc' = "thrown"
          /\ clientError' = raised[1]
          /\ clientResult' = clientResult
     ELSE /\ clientPc' = "returned"
          /\ clientResult' = result[1]
          /\ clientError' = clientError
  /\ UNCHANGED << execVars, classifyVars, invocation, sent,
               authVars, errorVars, ctorVars, toolVars >>

\* the operation after `await this.httpClient.get / post`: an error of the
\* executor propagates; a body with success false makes SERVICE_UNAVAILABLE;
\* otherwise the body is returned
AfterResponse(failMessage) ==
  /\ clientPc = "awaiting"
  /\ pc[1] \in {"Success", "Fatal"}
  /\ IF pc[1] = "Fatal"
     THEN /\ clientPc' = "thrown"
          /\ clientError' = raised[1]
          /\ clientResult' = clientResult
     ELSE IF ~result[1].success
     THEN /\ clientPc' = "thrown"
          /\ clientError' = createVantigeError("SERVICE_UNAVAILABLE", failMessage, 0,
                                               DetailsUndefined, "")
          /\ clientResult' = clientResult
     ELSE /\ clientPc' = "returned"
          /\ clientResult' = result[1]
          /\ clientError' = clientError
  /\ UNCHANGED << execVars, classifyVars, invocation, sent,
               authVars, errorVars, ctorVars, toolVars >>

listKnowledgeBasesResumes ==
  /\ invocation.op = "list"
  /\ AfterResponse("Failed to list knowledge bases")

queryResumes ==
  /\ invocation.op = "query"
  /\ AfterResponse("Query failed")

NextClient ==
  \/ listKnowledgeBases
  \/ query
  \/ listKnowledgeBasesResumes
  \/ queryResumes
  \/ \E c \in Calls : TransportResolves(c)
  \/ \E c \in Calls : TransportRejects(c)
  \/ \E c \in Calls : BackoffElapsed(c)

SpecClient == InitClient /\ [][NextClient]_vars

(***************************************************************************)
(* The credential: VantigeAuth.                                            *)
(***************************************************************************)
\* this.apiKey.length < 12
MaskMinLength == 12
\* this.apiKey.substring(0, 8)
MaskPrefixLength == 8
\* this.apiKey.substring(this.apiKey.length - 4)
MaskSuffixLength == 4
\* [a-zA-Z0-9]{32,}
MinSecretLength == 32
\* apiKey.length < 40
MinKeyLength == 40

\* s.startsWith(p)
StartsWith(s, p) == Len(s) >= Len(p) /\ SubSeq(s, 1, Len(p)) = p

\* the character at position i (from 1) of s, as a string
CharAt(s, i) == SubSeq(s, i, i)

\* ch.repeat(n)
RECURSIVE Repeat(_, _)
Repeat(ch, n) == IF n <= 0 THEN "" ELSE ch \o Repeat(ch, n - 1)

AlnumChars == "abcdefghijklmnopqrstuvwxyzABCDEFGHIJKLMNOPQRSTUVWXYZ0123456789"

\* the class [a-zA-Z0-9]
Alnum == { CharAt(AlnumChars, i) : i \in 1..Len(AlnumChars) }

\* validateApiKey of types/validation
validateApiKey(apiKey) == StartsWith(apiKey, "vk_live_") \/ StartsWith(apiKey, "vk_test_")

\* /^vk_(live|test)_[a-zA-Z0-9]{32,}$/.test(apiKey)
keyPattern(apiKey) ==
  /\ StartsWith(apiKey, "vk_live_") \/ StartsWith(apiKey, "vk_test_")
  /\ Len(apiKey) >= Len("vk_live_") + MinSecretLength
  /\ \A i \in (Len("vk_live_") + 1)..Len(apiKey) : CharAt(apiKey, i) \in Alnum

\* strings given as API keys: a prefix, then a run of "a", then an ending
KeyPrefixes ==
  { "", "vk_test_", "vk_live_", "vk_wrong_", "vk_test", "VK_TEST_", "vai_test_",
    " vk_test_" }

KeySecrets ==
  { Repeat("a", n) \o ending :
      n \in {0, 1, 3, 4, 11, 12, 30, 31, 32, 33},
      ending \in {"", "Z9", "@", "_x"} }

\* keys that differ from a key below only between the first 8 and the last 4
\* characters
InteriorVariants ==
  { "vk_test_" \o Repeat("b", 28) \o "3456", "vk_test_thort",
    "vk_live_" \o Repeat("a", 29) \o "b" \o "aaZ9" }

Keys ==
  { prefix \o secret : prefix \in KeyPrefixes, secret \in KeySecrets }
  \cup InteriorVariants
  \cup { "invalid", "invalid_key", "vk_test_short",
         "vk_test_abcdefghijklmnopqrstuvwxyz123456",
         "vk_live_abcdefghijklmnopqrstuvwxyz123456",
         "vk_wrong_123456789012345678901234567890",
         "vk_test_123456789012345678901234567@" }

\* a wrong validateAndSetApiKey: the strict pattern is not tested
validateAndSetApiKeyPrefixOnly(apiKey) ==
  IF apiKey = ""
  THEN [ auth |-> NoAuth,
         error |-> createVantigeError("INVALID_API_KEY", "API key is required", 0,
                                      DetailsUndefined, "") ]
  ELSE IF ~validateApiKey(apiKey)
  THEN [ auth |-> NoAuth,
         error |-> createVantigeError("INVALID_API_KEY",
                     "API key must start with \"vk_live_\" or \"vk_test_\"", 0,
                     DetailsUndefined, "") ]
  ELSE [ auth |-> [ exists |-> TRUE, apiKey |-> apiKey,
                    isTestKey |-> StartsWith(apiKey, "vk_test_") ],
         error |-> NoError ]

\* validateAndSetApiKey(apiKey): the error thrown, or the fields set
validateAndSetApiKey(apiKey) ==
  IF apiKey = ""
  THEN [ auth |-> NoAuth,
         error |-> createVantigeError("INVALID_API_KEY", "API key is required", 0,
                                      DetailsUndefined, "") ]
  ELSE IF ~validateApiKey(apiKey)
  THEN [ auth |-> NoAuth,
         error |-> createVantigeError("INVALID_API_KEY",
                     "API key must start with \"vk_live_\" or \"vk_test_\"", 0,
                     DetailsUndefined, "") ]
  ELSE IF ~keyPattern(apiKey)
  THEN [ auth |-> NoAuth,
         error |-> createVantigeError("INVALID_API_KEY", "API key format is invalid", 0,
                                      DetailsUndefined, "") ]
  ELSE [ auth |-> [ exists |-> TRUE, apiKey |-> apiKey,
                    isTestKey |-> StartsWith(apiKey, "vk_test_") ],
         error |-> NoError ]

\* getEnvironment()
getEnvironment(a) == IF a.isTestKey THEN "test" ELSE "live"

\* a wrong maskApiKey: four mask characters whatever the length
maskApiKeyFixedMask(apiKey) ==
  IF Len(apiKey) < MaskMinLength THEN SubSeq(apiKey, 1, MaskPrefixLength) \o "****"
  ELSE SubSeq(apiKey, 1, MaskPrefixLength) \o "****"
       \o SubSeq(apiKey, Len(apiKey) - MaskSuffixLength + 1, Len(apiKey))

\* a wrong maskApiKey: the last four characters are masked too
maskApiKeyNoSuffix(apiKey) ==
  IF Len(apiKey) < MaskMinLength THEN apiKey
  ELSE SubSeq(apiKey, 1, MaskPrefixLength)
       \o Repeat("*", Len(apiKey) - MaskPrefixLength)

\* a wrong maskApiKey: the first interior character is kept as well
maskApiKeyKeepsNine(apiKey) ==
  IF Len(apiKey) <= MaskMinLength THEN apiKey
  ELSE SubSeq(apiKey, 1, MaskPrefixLength + 1)
       \o Repeat("*", Len(apiKey) - MaskMinLength - 1)
       \o SubSeq(apiKey, Len(apiKey) - MaskSuffixLength + 1, Len(apiKey))

\* maskApiKey() of an instance whose apiKey field holds apiKey
maskApiKey(apiKey) ==
  IF Len(apiKey) < MaskMinLength THEN apiKey
  ELSE SubSeq(apiKey, 1, MaskPrefixLength)
       \o Repeat("*", Len(apiKey) - MaskMinLength)
       \o SubSeq(apiKey, Len(apiKey) - MaskSuffixLength + 1, Len(apiKey))

\* the errors validateKeyFormat pushes for a non-empty key, in order
KeyFormatErrors(apiKey) ==
  (IF ~StartsWith(apiKey, "vk_live_") /\ ~StartsWith(apiKey, "vk_test_")
   THEN << "API key must start with \"vk_live_\" or \"vk_test_\"" >> ELSE << >>)
  \o (IF ~keyPattern(apiKey) THEN << "API key format is invalid" >> ELSE << >>)
  \o (IF Len(apiKey) < MinKeyLength THEN << "API key is too short" >> ELSE << >>)

\* a wrong validateKeyFormat: only the first violated rule is reported
validateKeyFormatFirstOnly(apiKey) ==
  IF apiKey = ""
  THEN [ done |-> TRUE, isValid |-> FALSE, environment |-> "unset",
         errors |-> << "API key is required" >> ]
  ELSE LET errors == KeyFormatErrors(apiKey)
       IN [ done |-> TRUE, isValid |-> errors = << >>,
            environment |-> IF errors # << >> THEN "unset"
                            ELSE IF StartsWith(apiKey, "vk_test_") THEN "test"
                            ELSE "live",
            errors |-> IF errors = << >> THEN << >> ELSE << Head(errors) >> ]

\* a wrong validateKeyFormat: environment is set whether or not the key is valid
validateKeyFormatAlwaysEnvironment(apiKey) ==
  IF apiKey = ""
  THEN [ done |-> TRUE, isValid |-> FALSE, environment |-> "unset",
         errors |-> << "API key is required" >> ]
  ELSE LET errors == KeyFormatErrors(apiKey)
       IN [ done |-> TRUE, isValid |-> errors = << >>,
            environment |-> IF StartsWith(apiKey, "vk_test_") THEN "test" ELSE "live",
            errors |-> errors ]

\* VantigeAuth.validateKeyFormat(apiKey): environment "unset" is a result
\* without the environment property
validateKeyFormat(apiKey) ==
  IF apiKey = ""
  THEN [ done |-> TRUE, isValid |-> FALSE, environment |-> "unset",
         errors |-> << "API key is required" >> ]
  ELSE LET errors == KeyFormatErrors(apiKey)
       IN [ done |-> TRUE, isValid |-> errors = << >>,
            environment |-> IF errors # << >> THEN "unset"
                            ELSE IF StartsWith(apiKey, "vk_test_") THEN "test"
                            ELSE "live",
            errors |-> errors ]

\* the executor of the other specifications is present and idle
InitAuth ==
  /\ InitCalls({})
  /\ config = HttpClientConfig(DefaultRetries)
  /\ ClassifyOff
  /\ ClientOff
  /\ ErrorsOff
  /\ CtorOff
  /\ ToolsOff
  /\ rawKey \in Keys
  /\ auth = NoAuth
  /\ authPc = "start"
  /\ keyCheck = NoKeyCheck
  /\ authError = NoError
  /\ masked = ""

authFrame == << execVars, classifyVars, clientVars, errorVars, ctorVars, toolVars >>

\* VantigeAuth.validateKeyFormat(rawKey) is called
CallValidateKeyFormat ==
  /\ authPc # "off"
  /\ ~keyCheck.done
  /\ keyCheck' = validateKeyFormat(rawKey)
  /\ UNCHANGED << rawKey, auth, authPc, authError, masked, authFrame >>

\* new VantigeAuth(rawKey)
NewVantigeAuth ==
  /\ authPc = "start"
  /\ auth' = validateAndSetApiKey(rawKey).auth
  /\ authError' = validateAndSetApiKey(rawKey).error
  /\ authPc' = IF validateAndSetApiKey(rawKey).auth.exists THEN "constructed" ELSE "failed"
  /\ UNCHANGED << rawKey, keyCheck, masked, authFrame >>

\* `(auth as any).apiKey = shortKey`: a value put into the private field
\* from outside, as the masking test does
InjectApiKey ==
  /\ authPc = "constructed"
  /\ \E k \in Keys : auth' = [auth EXCEPT !.apiKey = k]
  /\ authPc' = "injected"
  /\ UNCHANGED << rawKey, keyCheck, authError, masked, authFrame >>

\* auth.maskApiKey()
CallMaskApiKey ==
  /\ authPc \in {"constructed", "injected"}
  /\ masked' = maskApiKey(auth.apiKey)
  /\ authPc' = "masked"
  /\ UNCHANGED << rawKey, auth, keyCheck, authError, authFrame >>

NextAuth ==
  \/ CallValidateKeyFormat
  \/ NewVantigeAuth
  \/ InjectApiKey
  \/ CallMaskApiKey

SpecAuth == InitAuth /\ [][NextAuth]_vars

(***************************************************************************)
(* One error made with createVantigeError and serialized with toJSON.      *)
(***************************************************************************)
\* toJSON(): the stack is a trace marker, not modelled further
toJSON(e) ==
  [ name |-> "VantigeSDKError", message |-> e.message, code |-> e.code,
    statusCode |-> e.statusCode, details |-> e.details, requestId |-> e.requestId,
    timestamp |-> e.timestamp, stack |-> "stack" ]

\* arguments of createVantigeError: any kind; message, status, details and
\* request id omitted ("" and 0), or supplied
ErrorArguments ==
  [ code : VantigeErrorCode,
    message : {"", "Custom message"},
    statusCode : {0, 401, 418},
    details : { DetailsUndefined, DetailsObject("field"),
                DetailsArray(<< "a", "b" >>), DetailsArray(<< >>) },
    requestId : {"", "req-1"} ]

InitErrors ==
  /\ InitCalls({})
  /\ config = HttpClientConfig(DefaultRetries)
  /\ ClassifyOff
  /\ ClientOff
  /\ AuthOff
  /\ CtorOff
  /\ ToolsOff
  /\ errorArgs \in ErrorArguments
  /\ errorRecord = NoErrorRecord
  /\ errorPc = "start"

\* createVantigeError(...).toJSON()
MakeError ==
  /\ errorPc = "start"
  /\ errorRecord' = toJSON(createVantigeError(errorArgs.code, errorArgs.message,
                                              errorArgs.statusCode, errorArgs.details,
                                              errorArgs.requestId))
  /\ errorPc' = "made"
  /\ UNCHANGED << errorArgs, execVars, classifyVars, clientVars, authVars, ctorVars, toolVars >>

NextErrors == MakeError

SpecErrors == InitErrors /\ [][NextErrors]_vars

(***************************************************************************)
(* Construction of a VantigeClient: the constructor and the factories.     *)
(***************************************************************************)
\* z.number().min(1000).max(60000) on timeout
TimeoutMin == 1000
TimeoutMax == 60000
\* timeout: config.timeout || 30000
DefaultTimeout == 30000

\* the executor that does not exist yet
NoConfig == [ baseUrl |-> "", timeout |-> 0, retries |-> 0, auth |-> "", debug |-> FALSE ]

\* a wrong VantigeConfigSchema: no bounds on retries
VantigeConfigSchemaNoRetriesBound(cfg) ==
  /\ StartsWith(cfg.apiKey, "vk_live_") \/ StartsWith(cfg.apiKey, "vk_test_")
  /\ cfg.timeout.present =>
       (cfg.timeout.value >= TimeoutMin /\ cfg.timeout.value <= TimeoutMax)

\* VantigeConfigSchema.parse(cfg) succeeds; baseUrl and debug are omitted
VantigeConfigSchema(cfg) ==
  /\ StartsWith(cfg.apiKey, "vk_live_") \/ StartsWith(cfg.apiKey, "vk_test_")
  /\ cfg.timeout.present =>
       (cfg.timeout.value >= TimeoutMin /\ cfg.timeout.value <= TimeoutMax)
  /\ cfg.retries.present =>
       (cfg.retries.value >= RetriesMin /\ cfg.retries.value <= RetriesMax)

\* a VantigeConfig
VantigeConfig(apiKey, retries, timeout) ==
  [ apiKey |-> apiKey, retries |-> retries, timeout |-> timeout ]

\* a wrong VantigeClientConstructor: the credential is constructed before
\* the configuration is validated
VantigeClientConstructorCredentialFirst(cfg) ==
  IF ~validateAndSetApiKey(cfg.apiKey).auth.exists
  THEN [ error |-> validateAndSetApiKey(cfg.apiKey).error,
         auth |-> NoAuth, httpConfig |-> NoConfig ]
  ELSE IF ~VantigeConfigSchema(cfg)
  THEN [ error |-> createVantigeError("CONFIGURATION_ERROR",
                     "Invalid configuration: " \o "zod issues", 0,
                     DetailsObject("ZodError"), ""),
         auth |-> NoAuth, httpConfig |-> NoConfig ]
  ELSE [ error |-> NoError,
         auth |-> validateAndSetApiKey(cfg.apiKey).auth,
         httpConfig |->
           [ baseUrl |-> "https://api.vantige.ai",
             timeout |-> IF cfg.timeout.present /\ cfg.timeout.value # 0
                         THEN cfg.timeout.value ELSE DefaultTimeout,
             retries |-> ClientRetries(cfg.retries),
             auth |-> "Bearer " \o cfg.apiKey,
             debug |-> FALSE ] ]

\* new VantigeClient(cfg): the error thrown, or the auth and the
\* HttpClientConfig the executor is created with
VantigeClientConstructor(cfg) ==
  IF ~VantigeConfigSchema(cfg)
  THEN [ error |-> createVantigeError("CONFIGURATION_ERROR",
                     "Invalid configuration: " \o "zod issues", 0,
                     DetailsObject("ZodError"), ""),
         auth |-> NoAuth, httpConfig |-> NoConfig ]
  ELSE IF ~validateAndSetApiKey(cfg.apiKey).auth.exists
  THEN [ error |-> validateAndSetApiKey(cfg.apiKey).error,
         auth |-> NoAuth, httpConfig |-> NoConfig ]
  ELSE [ error |-> NoError,
         auth |-> validateAndSetApiKey(cfg.apiKey).auth,
         httpConfig |->
           [ baseUrl |-> "https://api.vantige.ai",
             timeout |-> IF cfg.timeout.present /\ cfg.timeout.value # 0
                         THEN cfg.timeout.value ELSE DefaultTimeout,
             retries |-> ClientRetries(cfg.retries),
             auth |-> "Bearer " \o cfg.apiKey,
             debug |-> FALSE ] ]

ValidTestKey == "vk_test_abcdefghijklmnopqrstuvwxyz123456"
ValidLiveKey == "vk_live_abcdefghijklmnopqrstuvwxyz123456"

\* how a client is asked for: with `new` or a factory, a key, and the options
GivenConfigs ==
  { [ via |-> via, apiKey |-> k, retries |-> r, timeout |-> t, optionsApiKey |-> o ] :
      via \in {"new", "createTestClient", "createLiveClient"},
      k \in { "", "invalid_key", "vk_test_short", ValidTestKey, ValidLiveKey,
              "vk_test_123456789012345678901234567@" },
      r \in { Absent } \cup { Supplied(n) : n \in (RetriesMin - 1)..(RetriesMax + 1) },
      t \in { Absent, Supplied(TimeoutMin - 1), Supplied(TimeoutMin),
              Supplied(TimeoutMax), Supplied(TimeoutMax + 1) },
      o \in { AbsentText, Supplied(ValidTestKey), Supplied(ValidLiveKey) } }

InitConstruct ==
  /\ config = NoConfig
  /\ calls = { }
  /\ pc = [c \in Calls |-> "idle"]
  /\ attempt = [c \in Calls |-> 0]
  /\ lastError = [c \in Calls |-> NoError]
  /\ settled = [c \in Calls |-> Pending]
  /\ result = [c \in Calls |-> NoBody]
  /\ raised = [c \in Calls |-> NoError]
  /\ timer = [c \in Calls |-> 0]
  /\ trace = [c \in Calls |-> <<>>]
  /\ ClassifyOff
  /\ ClientOff
  /\ AuthOff
  /\ ErrorsOff
  /\ given \in { g \in GivenConfigs : g.via = "new" => g.optionsApiKey = AbsentText }
  /\ ctorPc = "start"
  /\ ctorError = NoError
  /\ ToolsOff

\* the constructor runs on cfg: on success the auth and the executor exist
\* and one logical call can be issued on it
Construct(cfg) ==
  /\ ctorPc = "start"
  /\ IF VantigeClientConstructor(cfg).error # NoError
     THEN /\ ctorPc' = "failed"
          /\ ctorError' = VantigeClientConstructor(cfg).error
          /\ UNCHANGED << config, calls, auth >>
     ELSE /\ ctorPc' = "constructed"
          /\ ctorError' = ctorError
          /\ auth' = VantigeClientConstructor(cfg).auth
          /\ config' = VantigeClientConstructor(cfg).httpConfig
          /\ calls' = {1}
  /\ UNCHANGED << given, pc, attempt, lastError, settled, result, raised, timer, trace,
                  rawKey, authPc, keyCheck, authError, masked,
                  classifyVars, clientVars, errorVars, toolVars >>

\* new VantigeClient(config)
NewVantigeClient ==
  /\ given.via = "new"
  /\ Construct(VantigeConfig(given.apiKey, given.retries, given.timeout))

\* the factory throws: no constructor runs
FactoryRejects(message) ==
  /\ ctorPc = "start"
  /\ ctorPc' = "failed"
  /\ ctorError' = createVantigeError("INVALID_API_KEY", message, 0, DetailsUndefined, "")
  /\ UNCHANGED << given, execVars, authVars, classifyVars, clientVars, errorVars, toolVars >>

\* { apiKey, ...options }: a property of options replaces the one before it
SpreadConfig ==
  VantigeConfig(IF given.optionsApiKey.present THEN given.optionsApiKey.value
                ELSE given.apiKey,
                given.retries, given.timeout)

\* VantigeClient.createTestClient(apiKey, options)
createTestClient ==
  /\ given.via = "createTestClient"
  /\ IF ~StartsWith(given.apiKey, "vk_test_")
     THEN FactoryRejects("Test client requires an API key starting with \"vk_test_\"")
     ELSE Construct(SpreadConfig)

\* VantigeClient.createLiveClient(apiKey, options)
createLiveClient ==
  /\ given.via = "createLiveClient"
  /\ IF ~StartsWith(given.apiKey, "vk_live_")
     THEN FactoryRejects("Live client requires an API key starting with \"vk_live_\"")
     ELSE Construct(SpreadConfig)

NextConstruct ==
  \/ NewVantigeClient
  \/ createTestClient
  \/ createLiveClient
  \/ \E c \in Calls : get(c)
  \/ \E c \in Calls : post(c)
  \/ \E c \in Calls : TransportResolves(c)
  \/ \E c \in Calls : TransportRejects(c)
  \/ \E c \in Calls : BackoffElapsed(c)

SpecConstruct == InitConstruct /\ [][NextConstruct]_vars

(***************************************************************************)
(* The VantigeClient: testConnection on call 1.                            *)
(***************************************************************************)
\* the argument of this.listKnowledgeBases({ limit: 1 })
TestConnectionParams ==
  [ op |-> "list", corpusId |-> EmptyText, query |-> EmptyText, topK |-> Absent,
    page |-> Absent, limit |-> Supplied(1), includeArchived |-> AbsentFlag ]

\* the invocation testConnection(): it takes no argument
TestConnectionInvocation == [ NoInvocation EXCEPT !.op = "testConnection" ]

\* a client constructed with a test or a live key and retries omitted, 0 or
\* 1, about to run testConnection
InitTestConnection ==
  /\ InitCalls({1})
  /\ config \in { HttpClientConfig(ClientRetries(r)) :
                    r \in { Absent, Supplied(0), Supplied(1) } }
  /\ ClassifyOff
  /\ ErrorsOff
  /\ CtorOff
  /\ ToolsOff
  /\ rawKey \in { ValidTestKey, ValidLiveKey }
  /\ auth = validateAndSetApiKey(rawKey).auth
  /\ authPc = "constructed"
  /\ keyCheck = NoKeyCheck
  /\ authError = NoError
  /\ masked = ""
  /\ invocation = TestConnectionInvocation
  /\ clientPc = "idle"
  /\ sent = NoRequest
  /\ clientResult = NoBody
  /\ clientError = NoError

\* testConnection() up to the await inside listKnowledgeBases({ limit: 1 })
testConnection ==
  /\ clientPc = "idle"
  /\ invocation.op = "testConnection"
  /\ sent' = [ method |-> "get", url |-> ListUrl(QueryParams(TestConnectionParams)),
               id |-> EmptyText, params |-> QueryParams(TestConnectionParams),
               body |-> NoInvocation ]
  /\ Start(1)
  /\ clientPc' = "awaiting"
  /\ UNCHANGED << invocation, clientResult, clientError, classifyVars,
               authVars, errorVars, ctorVars, toolVars >>

\* what listKnowledgeBases throws once call 1 has ended: the executor's
\* error, SERVICE_UNAVAILABLE for a body with success false, or nothing
ListFailure ==
  IF pc[1] = "Fatal" THEN raised[1]
  ELSE IF ~result[1].success
  THEN createVantigeError("SERVICE_UNAVAILABLE", "Failed to list knowledge bases", 0,
                          DetailsUndefined, "")
  ELSE NoError

\* a wrong testConnectionCatch: the error is thrown on as it is
testConnectionCatchRethrows(error) == error

\* the catch block of testConnection
testConnectionCatch(error) ==
  createVantigeError("NETWORK_ERROR", "Failed to connect to Vantige API", 0,
                     DetailsObject(error), "")

\* Date.now() - start, on a clock that only the backoff timers advance
RECURSIVE Sum(_)
Sum(seq) == IF seq = << >> THEN 0 ELSE Head(seq) + Sum(Tail(seq))
Latency == Sum(Delays(trace[1]))

\* testConnection() after its await
testConnectionResumes ==
  /\ invocation.op = "testConnection"
  /\ clientPc = "awaiting"
  /\ pc[1] \in {"Success", "Fatal"}
  /\ IF ListFailure # NoError
     THEN /\ clientPc' = "thrown"
          /\ clientError' = testConnectionCatch(ListFailure)
          /\ clientResult' = clientResult
     ELSE /\ clientPc' = "returned"
          /\ clientResult' = [ present |-> TRUE, success |-> TRUE,
                               latency |-> Latency,
                               environment |-> getEnvironment(auth) ]
          /\ clientError' = clientError
  /\ UNCHANGED << execVars, classifyVars, invocation, sent,
               authVars, errorVars, ctorVars, toolVars >>

NextTestConnection ==
  \/ testConnection
  \/ testConnectionResumes
  \/ \E c \in Calls : TransportResolves(c)
  \/ \E c \in Calls : TransportRejects(c)
  \/ \E c \in Calls : BackoffElapsed(c)

SpecTestConnection == InitTestConnection /\ [][NextTestConnection]_vars

(***************************************************************************)
(* createKnowledgeBaseTools.                                               *)
(***************************************************************************)
\* the longest list of knowledge bases given
MaxKnowledgeBases == 2

UpperCaseLetters == "ABCDEFGHIJKLMNOPQRSTUVWXYZ"
LowerCaseLetters == "abcdefghijklmnopqrstuvwxyz"

\* the characters of a string, as a set
CharsOf(s) == { CharAt(s, i) : i \in 1..Len(s) }

\* s without its first character
Rest(s) == SubSeq(s, 2, Len(s))

\* String.prototype.toLowerCase() on one character
LowerChar(ch) ==
  IF ch \in CharsOf(UpperCaseLetters)
  THEN CharAt(LowerCaseLetters,
              CHOOSE i \in 1..Len(UpperCaseLetters) : CharAt(UpperCaseLetters, i) = ch)
  ELSE ch

\* String.prototype.toLowerCase()
RECURSIVE ToLowerCase(_)
ToLowerCase(s) ==
  IF s = "" THEN "" ELSE LowerChar(CharAt(s, 1)) \o ToLowerCase(Rest(s))

\* the characters \s matches, of those used in names
Whitespace == { " " }

\* the characters [a-z0-9\s-] matches
KeptChars == CharsOf(LowerCaseLetters) \cup CharsOf("0123456789") \cup Whitespace \cup { "-" }

\* .replace(/[^a-z0-9\s-]/g, "")
RECURSIVE RemoveSpecial(_)
RemoveSpecial(s) ==
  IF s = "" THEN ""
  ELSE (IF CharAt(s, 1) \in KeptChars THEN CharAt(s, 1) ELSE "") \o RemoveSpecial(Rest(s))

\* s without the characters of class at its start
RECURSIVE SkipRun(_, _)
SkipRun(s, class) ==
  IF s # "" /\ CharAt(s, 1) \in class THEN SkipRun(Rest(s), class) ELSE s

\* .replace(/\s+/g, "-") and .replace(/-+/g, "-"): every maximal run of
\* characters of class becomes one hyphen
RECURSIVE ReplaceRuns(_, _)
ReplaceRuns(s, class) ==
  IF s = "" THEN ""
  ELSE IF CharAt(s, 1) \in class THEN "-" \o ReplaceRuns(SkipRun(s, class), class)
  ELSE CharAt(s, 1) \o ReplaceRuns(Rest(s), class)

\* .replace(/^-|-$/g, "")
StripHyphens(s) ==
  LET front == IF s # "" /\ CharAt(s, 1) = "-" THEN Rest(s) ELSE s
  IN IF front # "" /\ CharAt(front, Len(front)) = "-"
     THEN SubSeq(front, 1, Len(front) - 1) ELSE front

\* toKebabCase(str)
toKebabCase(str) ==
  StripHyphens(ReplaceRuns(ReplaceRuns(RemoveSpecial(ToLowerCase(str)), Whitespace), {"-"}))

\* generateToolKey(knowledgeBase)
generateToolKey(knowledgeBase) ==
  IF toKebabCase(knowledgeBase.name) # "" THEN toKebabCase(knowledgeBase.name)
  ELSE "knowledge-base-" \o knowledgeBase.id

\* the tool made for kb: its description, the knowledge base its execute
\* queries, and the property that holds the schema
Tool(kb, v) ==
  [ description |-> IF kb.description # "" THEN kb.description
                    ELSE "Query the " \o kb.name \o " knowledge base",
    queries |-> kb.id,
    schemaProperty |-> IF v = "v4" THEN "parameters" ELSE "inputSchema" ]

\* tools[toolKey] = tool
Assign(object, key, tool) ==
  { entry \in object : entry.key # key } \cup { [ key |-> key, tool |-> tool ] }

\* for (const kb of knowledgeBases) { ... tools[toolKey] = tool }, from the
\* i-th knowledge base on
RECURSIVE ForEachKnowledgeBase(_, _, _, _)
ForEachKnowledgeBase(kbs, i, v, object) ==
  IF i > Len(kbs) THEN object
  ELSE ForEachKnowledgeBase(kbs, i + 1, v,
         Assign(object, generateToolKey(kbs[i]), Tool(kbs[i], v)))

\* names of knowledge bases: those of the tests, and names that differ from
\* them in case, punctuation or spacing
KnowledgeBaseNames ==
  { "Product Documentation", "API Reference", "User Guide & FAQ",
    "Special@Characters#Test", "", "api  reference", "-API-Reference-", "@#",
    "Knowledge Base kb1" }

\* the i-th knowledge base of a list has the id "kb" i: ids are unique
KnowledgeBaseLists ==
  UNION { { [ i \in 1..n |-> [ id |-> "kb" \o NumberToString(i), name |-> names[i],
                               description |-> descriptions[i] ] ] :
              names \in [1..n -> KnowledgeBaseNames],
              descriptions \in [1..n -> {"", "Main product documentation and guides"}] } :
          n \in 0..MaxKnowledgeBases }

InitTools ==
  /\ InitCalls({})
  /\ config = HttpClientConfig(DefaultRetries)
  /\ ClassifyOff
  /\ ClientOff
  /\ AuthOff
  /\ ErrorsOff
  /\ CtorOff
  /\ knowledgeBases \in KnowledgeBaseLists
  /\ version \in {"v4", "v5"}
  /\ tools = { }
  /\ toolsPc = "start"

\* createKnowledgeBaseTools(knowledgeBases, client, version)
createKnowledgeBaseTools ==
  /\ toolsPc = "start"
  /\ tools' = ForEachKnowledgeBase(knowledgeBases, 1, version, { })
  /\ toolsPc' = "returned"
  /\ UNCHANGED << knowledgeBases, version, execVars, classifyVars, clientVars,
                  authVars, errorVars, ctorVars >>

NextTools == createKnowledgeBaseTools

SpecTools == InitTools /\ [][NextTools]_vars

TypeOK ==
  /\ pc \in [Calls -> {"idle", "Attempting", "Retryable", "Success", "Fatal"}]
  /\ attempt \in [Calls -> Nat]
  /\ timer \in [Calls -> Nat]
  /\ calls \subseteq Calls


(***************************************************************************)
(* Properties of the retry executor.                                       *)
(***************************************************************************)
Terminal == {"Success", "Fatal"}

Invocations(c) == Count(trace[c], "invoke")
Rejections(c) == Count(trace[c], "reject")
Resolutions(c) == Count(trace[c], "resolve")

\* every attempt of call c that has settled so far failed with a retryable kind
AllAttemptsFailedRetryable(c) ==
  \A i \in DOMAIN trace[c] :
    /\ trace[c][i].ev # "resolve"
    /\ trace[c][i].ev = "reject" => ~trace[c][i].callerFixable

\* C1: with retry budget N in 0..5, a call whose every attempt fails with a
\* retryable kind invokes the transport exactly N+1 times, never more, and
\* then raises an error: it ends only as Fatal, only after N+1 invocations,
\* and N+1 such failures do end it.
C1_AlwaysFailingCallTriesNPlusOne ==
  \A c \in calls :
    AllAttemptsFailedRetryable(c) =>
      /\ Invocations(c) <= config.retries + 1
      /\ pc[c] \in Terminal =>
           /\ pc[c] = "Fatal"
           /\ Invocations(c) = config.retries + 1
           /\ raised[c] # NoError
      /\ Rejections(c) = config.retries + 1 => pc[c] = "Fatal"

C1_Witness ==
  \E c \in calls :
    /\ config.retries = 5
    /\ pc[c] = "Fatal"
    /\ AllAttemptsFailedRetryable(c)
    /\ Invocations(c) = 6

\* C2: once an attempt is classified as InvalidApiKey, InsufficientPermissions,
\* ValidationError or KnowledgeBaseNotFound, the call is Fatal with that very
\* error raised, the rejection is the last event of the call (no further
\* transport invocation, no backoff), whatever the attempt number and the
\* budget that remains.
C2_CallerFixableKindEndsTheCall ==
  \A c \in calls :
    ( /\ settled[c].state = "rejected"
      /\ Classify(settled[c].error).code \in CallerFixableKinds )
    => /\ pc[c] = "Fatal"
       /\ raised[c] = Classify(settled[c].error)
       /\ trace[c][Len(trace[c])].ev = "reject"
       /\ timer[c] = 0

C2_Witness ==
  \E c \in calls :
    /\ pc[c] = "Fatal"
    /\ raised[c].code \in CallerFixableKinds
    /\ attempt[c] >= 1
    /\ attempt[c] < config.retries
    /\ Invocations(c) = attempt[c] + 1

\* C3: in every reachable state the attempt counter of a call lies in
\* 0..maxRetries and the call has invoked the transport at most
\* maxRetries + 1 times.
C3_AttemptWithinBudget ==
  \A c \in calls :
    /\ attempt[c] \in 0..config.retries
    /\ Invocations(c) <= config.retries + 1

C3_Witness ==
  \E c \in calls :
    /\ config.retries = 5
    /\ attempt[c] = 5
    /\ Invocations(c) = 6

\* C4: when k retryable failures (0 <= k <= maxRetries) are followed by a
\* successful attempt, the call is Success with the body of that attempt as
\* its result, the transport was invoked exactly k+1 times, and the
\* resolution is the last event of the call.
C4_SuccessAfterRetryableFailures ==
  \A c \in calls :
    Resolutions(c) >= 1 =>
      /\ pc[c] = "Success"
      /\ settled[c].state = "resolved"
      /\ result[c].present
      /\ result[c] = settled[c].data
      /\ raised[c] = NoError
      /\ Resolutions(c) = 1
      /\ trace[c][Len(trace[c])].ev = "resolve"
      /\ Invocations(c) = Rejections(c) + 1
      /\ Rejections(c) <= config.retries
      /\ \A i \in DOMAIN trace[c] : ~trace[c][i].callerFixable

C4_Witness ==
  \E c \in calls :
    /\ config.retries = 3
    /\ pc[c] = "Success"
    /\ Rejections(c) = 3
    /\ Invocations(c) = 4
    /\ result[c].success

\* C5: whenever an attempt fails with a kind outside the four caller-fixable
\* kinds while attempt < maxRetries, the executor does not raise but awaits
\* the backoff, and the end of the backoff is another transport invocation.
C5_RetryableFailureIsRetried ==
  [][ \A c \in calls :
        /\ ( /\ pc[c] = "Attempting"
             /\ trace'[c] # trace[c]
             /\ settled'[c].state = "rejected"
             /\ Classify(settled'[c].error).code \notin CallerFixableKinds
             /\ attempt[c] < config.retries )
           => /\ pc'[c] = "Retryable"
              /\ raised'[c] = NoError
        /\ ( pc[c] = "Retryable" /\ trace'[c] # trace[c] )
           => /\ pc'[c] = "Attempting"
              /\ Count(trace'[c], "invoke") = Invocations(c) + 1 ]_vars

C5_Witness ==
  \E c \in calls :
    /\ pc[c] = "Attempting"
    /\ attempt[c] >= 1
    /\ lastError[c].code = "NETWORK_ERROR"
    /\ lastError[c].statusCode = 502

\* C6: when a call ends by exhausting its retry budget, the error raised is
\* the classified error of the final attempt.
C6_ExhaustionRaisesLastError ==
  \A c \in calls :
    ( pc[c] = "Fatal" /\ Rejections(c) = config.retries + 1 )
    => /\ settled[c].state = "rejected"
       /\ raised[c] = Classify(settled[c].error)
       /\ raised[c] = lastError[c]

C6_Witness ==
  \E c \in calls :
    /\ config.retries >= 2
    /\ pc[c] = "Fatal"
    /\ Rejections(c) = config.retries + 1
    /\ raised[c].code = "SERVICE_UNAVAILABLE"

\* C7: a call starts in Attempting(0); a terminal state is never left and is
\* either Success with a body or Fatal with an error; and, every transport
\* invocation and backoff timer settling eventually, a call that is
\* attempting eventually reaches a terminal state.
C7_CallReachesOneTerminalState ==
  /\ [][ \A c \in Calls :
           /\ (pc[c] = "idle" /\ pc'[c] # "idle")
                => (pc'[c] = "Attempting" /\ attempt'[c] = 0)
           /\ pc[c] \in Terminal
                => (pc'[c] = pc[c] /\ result'[c] = result[c] /\ raised'[c] = raised[c]) ]_vars
  /\ [](\A c \in Calls :
           /\ pc[c] = "Success" => (result[c].present /\ raised[c] = NoError)
           /\ pc[c] = "Fatal" => (~result[c].present /\ raised[c] # NoError))
  /\ \A c \in Calls : (pc[c] = "Attempting") ~> (pc[c] \in Terminal)

C7_Witness ==
  \E c \in calls :
    /\ config.retries = 5
    /\ pc[c] = "Fatal"
    /\ Count(trace[c], "delay") = 5

\* C8: the attempts of one call are strictly sequential: at most one
\* transport invocation is in flight, and every invocation but the first
\* directly follows a backoff delay awaited to its end, which directly
\* follows the rejection of the previous invocation.
C8_AttemptsAreSequential ==
  \A c \in calls :
    LET t == trace[c] IN
    /\ Invocations(c) - Resolutions(c) - Rejections(c) \in {0, 1}
    /\ \A i \in DOMAIN t :
         (t[i].ev = "invoke" /\ i > 1) =>
           /\ i > 2
           /\ t[i-1].ev = "delay"
           /\ t[i-1].ms > 0
           /\ t[i-2].ev = "reject"
    /\ pc[c] = "Attempting" => timer[c] = 0

C8_Witness ==
  \E c \in calls :
    /\ pc[c] = "Attempting"
    /\ Invocations(c) >= 3

\* C9: with several calls running concurrently on one executor, a step of
\* one call changes nothing of any other call (attempt counter, last error,
\* outcome, timer) nor the executor's configuration; each call's attempt
\* counter counts its own backoffs only, and two calls with the same own
\* history are in the same state whatever the other calls did.
C9_CallsAreIsolated ==
  /\ [][ /\ config' = config
         /\ \A c \in Calls :
              trace'[c] = trace[c] =>
                /\ pc'[c] = pc[c]
                /\ attempt'[c] = attempt[c]
                /\ lastError'[c] = lastError[c]
                /\ settled'[c] = settled[c]
                /\ result'[c] = result[c]
                /\ raised'[c] = raised[c]
                /\ timer'[c] = timer[c] ]_vars
  /\ [](\A c \in Calls :
           /\ attempt[c] = Count(trace[c], "delay")
           /\ Rejections(c) <= config.retries + 1
           /\ \A d \in Calls :
                (trace[c] = trace[d] /\ settled[c] = settled[d]) =>
                  /\ pc[c] = pc[d]
                  /\ attempt[c] = attempt[d]
                  /\ result[c] = result[d]
                  /\ raised[c] = raised[d])

C9_Witness ==
  \E c, d \in calls :
    /\ c # d
    /\ config.retries = 1
    /\ pc[c] = "Fatal"
    /\ Rejections(c) = 2
    /\ pc[d] = "Attempting"
    /\ attempt[d] = 0

\* the delays of the reference policy before attempts 1..5
ReferenceDelays == << 1000, 2000, 4000, 8000, 10000 >>

\* C10: the delay awaited before attempt k >= 1 is min(1000 * 2^(k-1), 10000)
\* ms, that is 1000, 2000, 4000, 8000, 10000 for k = 1..5; it never exceeds
\* 10000 ms and is non-decreasing in k.
C10_BackoffDelays ==
  \A c \in calls :
    LET d == Delays(trace[c]) IN
    /\ \A k \in DOMAIN d :
         /\ d[k] = Min(1000 * 2^(k-1), 10000)
         /\ k <= 5 => d[k] = ReferenceDelays[k]
         /\ d[k] <= 10000
         /\ k > 1 => d[k-1] <= d[k]
    /\ pc[c] = "Retryable" => timer[c] = Min(1000 * 2^attempt[c], 10000)

C10_Witness ==
  \E c \in calls : Delays(trace[c]) = ReferenceDelays


(***************************************************************************)
(* Properties of the translation pipeline.                                 *)
(***************************************************************************)
\* the fixed table of the specification
KindOfStatus(st) ==
  CASE st = 401 -> "INVALID_API_KEY"
    [] st = 403 -> "INSUFFICIENT_PERMISSIONS"
    [] st = 404 -> "KNOWLEDGE_BASE_NOT_FOUND"
    [] st = 422 -> "VALIDATION_ERROR"
    [] st = 429 -> "RATE_LIMIT_EXCEEDED"
    [] st = 500 -> "INTERNAL_SERVER_ERROR"
    [] st = 503 -> "SERVICE_UNAVAILABLE"
    [] OTHER -> "NETWORK_ERROR"

\* the failure was translated by the interceptor
Translated == classifyPc \in {"intercepted", "caught"}

\* C11: a failure carrying an HTTP response is classified by the fixed table
\* (401, 403, 404, 422, 429, 500, 503, anything else NetworkError) and the
\* error's status code is the response's HTTP status.
C11_StatusMapping ==
  ( Translated /\ failure.kind = "axios" /\ failure.hasResponse )
  => /\ classified.code = KindOfStatus(failure.status)
     /\ classified.statusCode = failure.status

C11_Witness ==
  /\ Translated
  /\ failure.kind = "axios"
  /\ failure.hasResponse
  /\ failure.status = 401
  /\ classified.code = "INVALID_API_KEY"
  /\ classified.statusCode = 401

\* C12: a transport failure without response is RequestTimeout when its code
\* is ECONNABORTED and NetworkError in every other case.
C12_NoResponseClassification ==
  ( Translated /\ failure.kind = "axios" /\ ~failure.hasResponse )
  => classified.code =
       IF failure.code = "ECONNABORTED" THEN "REQUEST_TIMEOUT" ELSE "NETWORK_ERROR"

C12_Witness ==
  /\ Translated
  /\ failure.kind = "axios"
  /\ ~failure.hasResponse
  /\ failure.code = "ECONNABORTED"
  /\ classified.code = "REQUEST_TIMEOUT"

\* C13: a transport failure without response and with the abort/timeout
\* signal set is classified as RequestTimeout with status code 408.
C13_TimeoutHasStatus408 ==
  ( /\ Translated
    /\ failure.kind = "axios"
    /\ ~failure.hasResponse
    /\ failure.code = "ECONNABORTED" )
  => /\ classified.code = "REQUEST_TIMEOUT"
     /\ classified.statusCode = 408


\* C14: translation is idempotent and passes a VantigeSDKError through
\* unchanged: translating a translated error gives it back, and a call whose
\* transport rejects with an existing VantigeSDKError and ends with it raises
\* that very error, timestamp included.
C14_TranslationIsIdempotent ==
  \A c \in calls :
    settled[c].state = "rejected" =>
      /\ handleError(SdkFailure(lastError[c])) = lastError[c]
      /\ handleError(Intercept(settled[c].error)) = handleError(settled[c].error)
      /\ settled[c].error.kind = "sdk" =>
           /\ lastError[c] = settled[c].error.sdk
           /\ pc[c] = "Fatal" => raised[c] = settled[c].error.sdk

C14_Witness ==
  \E c \in calls :
    /\ pc[c] = "Fatal"
    /\ settled[c].state = "rejected"
    /\ settled[c].error.kind = "sdk"
    /\ raised[c].code = "QUERY_TIMEOUT"
    /\ raised[c].timestamp = "earlier"
    /\ Invocations(c) >= 2

(***************************************************************************)
(* Properties of the client's operations.                                  *)
(***************************************************************************)
\* a string that is empty or whitespace only
Blank(s) == s.core = 0

\* query() has run its checks on the invocation
QueryChecked ==
  /\ invocation.op = "query"
  /\ clientPc \in {"awaiting", "returned", "thrown"}

\* query() threw a ValidationError without handing anything to the transport
RejectedLocally ==
  /\ clientPc = "thrown"
  /\ clientError.code = "VALIDATION_ERROR"
  /\ sent = NoRequest
  /\ Invocations(1) = 0

RejectedForLength ==
  /\ RejectedLocally
  /\ clientError.message = "Query must be 1000 characters or less"

TopKOutOfRange(k) == k.present /\ (k.value < 1 \/ k.value > 100)

\* C15: a query() whose inputs violate any input rule (blank identifier,
\* blank query text, trimmed query text longer than 1000 characters, topK
\* outside 1..100) raises ValidationError with zero transport invocations.
C15_InputErrorsFailFast ==
  ( /\ QueryChecked
    /\ \/ Blank(invocation.corpusId)
       \/ Blank(invocation.query)
       \/ Length(Trim(invocation.query)) > 1000
       \/ TopKOutOfRange(invocation.topK) )
  => RejectedLocally

\* C16 as stated: with a usable identifier, a blank query text is rejected
\* with ValidationError, and a text is rejected for its length exactly when
\* its trimmed form is longer than 1000 characters.
C16_LengthBoundOnTrimmedText ==
  (QueryChecked /\ ~Blank(invocation.corpusId)) =>
    /\ Blank(invocation.query) => RejectedLocally
    /\ RejectedForLength <=>
         (~Blank(invocation.query) /\ Length(Trim(invocation.query)) > 1000)

\* C16 amended: with a usable identifier, a blank query text is rejected
\* with ValidationError, and a non-blank text is rejected for its length
\* exactly when the text as given, whitespace around it included, is longer
\* than 1000 characters.
C16_LengthBoundOnGivenText ==
  (QueryChecked /\ ~Blank(invocation.corpusId)) =>
    /\ Blank(invocation.query) =>
         (RejectedLocally /\ clientError.message = "Query is required")
    /\ RejectedForLength <=>
         (~Blank(invocation.query) /\ Length(invocation.query) > 1000)

C16_Witness ==
  /\ QueryChecked
  /\ RejectedForLength
  /\ Length(Trim(invocation.query)) = 1000
  /\ Length(invocation.query) = 1001

\* C17: a query() whose identifier is blank (empty or whitespace only)
\* raises ValidationError before any transport invocation.
C17_BlankIdentifierRejected ==
  (QueryChecked /\ Blank(invocation.corpusId)) => RejectedLocally

\* C18: with the other inputs valid, query() rejects exactly when topK is
\* present and outside 1..100 (0 and 101 are rejected, not taken as unset);
\* with topK absent or inside 1..100 the request goes to the transport with
\* topK as given.
C18_TopKCheckedWhenPresent ==
  ( /\ QueryChecked
    /\ ~Blank(invocation.corpusId)
    /\ ~Blank(invocation.query)
    /\ Length(invocation.query) <= 1000 )
  => /\ RejectedLocally <=> TopKOutOfRange(invocation.topK)
     /\ ~TopKOutOfRange(invocation.topK) =>
          /\ Invocations(1) >= 1
          /\ sent.method = "post"
          /\ sent.body.topK = invocation.topK

C18_Witness ==
  /\ QueryChecked
  /\ invocation.topK = Supplied(0)
  /\ RejectedLocally
  /\ clientError.message = "topK must be between 1 and 100"

\* C19: when the executor returned a body whose success flag is false, the
\* operation raises ServiceUnavailable, and the transport is not invoked
\* because of it: the resolve that brought the body is the call's last event
\* and its only resolve, so one such response alone is one invocation.
C19_UnsuccessfulBodyRaisesOutsideRetryLoop ==
  ( /\ clientPc \in {"returned", "thrown"}
    /\ pc[1] = "Success"
    /\ ~result[1].success )
  => /\ clientPc = "thrown"
     /\ clientError.code = "SERVICE_UNAVAILABLE"
     /\ clientError.message =
          (IF invocation.op = "list" THEN "Failed to list knowledge bases"
           ELSE "Query failed")
     /\ trace[1][Len(trace[1])].ev = "resolve"
     /\ Resolutions(1) = 1
     /\ Invocations(1) = Rejections(1) + 1

C19_Witness ==
  /\ invocation.op = "list"
  /\ clientPc = "thrown"
  /\ clientError.code = "SERVICE_UNAVAILABLE"
  /\ pc[1] = "Success"
  /\ trace[1] = << Invoked, Event("resolve", 0, FALSE) >>

\* the value sent under a name in the query string, "" when the name is not sent
SentValue(name) ==
  IF \E i \in DOMAIN sent.params : sent.params[i][1] = name
  THEN sent.params[CHOOSE i \in DOMAIN sent.params : sent.params[i][1] = name][2]
  ELSE ""

DecimalOf(n) ==
  CASE n = 0 -> "0" [] n = 1 -> "1" [] n = 2 -> "2" [] n = 20 -> "20"

\* C20: each of page, limit and includeArchived is in the query string of the
\* list request if and only if the caller supplied it, whatever the value (0
\* and false included), written in decimal or as true/false.
C20_ListParameterSentIffSupplied ==
  (invocation.op = "list" /\ sent.method = "get") =>
    /\ SentValue("page") =
         (IF invocation.page.present THEN DecimalOf(invocation.page.value) ELSE "")
    /\ SentValue("limit") =
         (IF invocation.limit.present THEN DecimalOf(invocation.limit.value) ELSE "")
    /\ SentValue("includeArchived") =
         (IF invocation.includeArchived.present
          THEN (IF invocation.includeArchived.value THEN "true" ELSE "false")
          ELSE "")

\* C21: listKnowledgeBases with nothing supplied (no parameters, or a
\* parameter object without page, limit and includeArchived) sends its
\* request to exactly /api/v1/knowledge-base: no "?", no query string.
C21_NoParametersNoQueryString ==
  ( /\ invocation.op = "list"
    /\ sent.method = "get"
    /\ ~invocation.page.present
    /\ ~invocation.limit.present
    /\ ~invocation.includeArchived.present )
  => /\ sent.url = "/api/v1/knowledge-base"
     /\ sent.params = << >>

C21_Witness ==
  /\ invocation.op = "list"
  /\ invocation.page = Absent
  /\ invocation.limit = Absent
  /\ invocation.includeArchived = AbsentFlag
  /\ sent.method = "get"
  /\ sent.url = "/api/v1/knowledge-base"
  /\ trace[1] = << Invoked >>

(***************************************************************************)
(* Properties of the credential.                                           *)
(***************************************************************************)
\* C24: for every string held in the credential's apiKey field, a malformed
\* one put there from outside included, maskApiKey returns a string of the
\* same length, and the string itself when it is shorter than 12 characters.
C24_MaskKeepsLength ==
  authPc = "masked" =>
    /\ Len(masked) = Len(auth.apiKey)
    /\ Len(auth.apiKey) < 12 => masked = auth.apiKey

C24_Witness ==
  /\ authPc = "masked"
  /\ rawKey # auth.apiKey
  /\ auth.apiKey = "vk_test_aaa"
  /\ masked = "vk_test_aaa"

\* C25: for every held string of 12 characters or more, maskApiKey returns
\* its first 8 characters, then length - 12 mask characters "*", then its
\* last 4 characters; the 40-character key
\* vk_test_abcdefghijklmnopqrstuvwxyz123456 gives vk_test_, 28 "*", 3456.
C25_MaskKeepsFirst8Last4 ==
  (authPc = "masked" /\ Len(auth.apiKey) >= 12) =>
    /\ Len(masked) = Len(auth.apiKey)
    /\ \A i \in 1..Len(auth.apiKey) :
         CharAt(masked, i) =
           (IF i <= 8 \/ i > Len(auth.apiKey) - 4 THEN CharAt(auth.apiKey, i) ELSE "*")
    /\ auth.apiKey = "vk_test_abcdefghijklmnopqrstuvwxyz123456" =>
         masked = "vk_test_****************************3456"

C25_Witness ==
  /\ authPc = "masked"
  /\ auth.apiKey = "vk_test_abcdefghijklmnopqrstuvwxyz123456"
  /\ masked = "vk_test_****************************3456"

\* the elements of a sequence
Range(seq) == { seq[i] : i \in DOMAIN seq }

\* the messages of the four rules of the key format that a string violates
ViolatedKeyRules(k) ==
  (IF k = "" THEN { "API key is required" } ELSE { })
  \cup (IF ~StartsWith(k, "vk_live_") /\ ~StartsWith(k, "vk_test_")
        THEN { "API key must start with \"vk_live_\" or \"vk_test_\"" } ELSE { })
  \cup (IF ~keyPattern(k) THEN { "API key format is invalid" } ELSE { })
  \cup (IF Len(k) < 40 THEN { "API key is too short" } ELSE { })

\* C26 as stated: for every input string the errors list of
\* validateKeyFormat has a message for every rule the input violates
\* (non-empty, prefix, shape, minimum length), and isValid is true iff the
\* list is empty.
C26_EveryViolatedRuleReported ==
  keyCheck.done =>
    /\ ViolatedKeyRules(rawKey) \subseteq Range(keyCheck.errors)
    /\ keyCheck.isValid <=> keyCheck.errors = << >>

\* C26 amended: for the empty string the errors list is exactly
\* "API key is required"; for every non-empty input it has exactly the
\* messages of the rules the input violates (prefix, shape, minimum length),
\* each once; isValid is true iff the list is empty.
C26_EveryViolatedRuleOfNonEmptyKeyReported ==
  keyCheck.done =>
    /\ rawKey = "" => keyCheck.errors = << "API key is required" >>
    /\ rawKey # "" =>
         /\ Range(keyCheck.errors) = ViolatedKeyRules(rawKey)
         /\ Len(keyCheck.errors) = Cardinality(ViolatedKeyRules(rawKey))
    /\ keyCheck.isValid <=> keyCheck.errors = << >>

C26_Witness ==
  /\ keyCheck.done
  /\ rawKey = "invalid"
  /\ ~keyCheck.isValid
  /\ Len(keyCheck.errors) = 3

\* C27: validateKeyFormat sets environment only for a valid key: "test" for
\* a valid vk_test_ key, "live" for a valid vk_live_ key, and unset for every
\* input that fails the prefix check or any other rule.
C27_EnvironmentOnlyWhenValid ==
  keyCheck.done =>
    keyCheck.environment =
      (IF ViolatedKeyRules(rawKey) # { } THEN "unset"
       ELSE IF StartsWith(rawKey, "vk_test_") THEN "test"
       ELSE "live")

C27_Witness ==
  /\ keyCheck.done
  /\ rawKey = "vk_test_short"
  /\ keyCheck.environment = "unset"

\* the message of the first violated rule in the order required, prefix, shape
FirstViolatedKeyRule(k) ==
  IF k = "" THEN "API key is required"
  ELSE IF ~StartsWith(k, "vk_live_") /\ ~StartsWith(k, "vk_test_")
    THEN "API key must start with \"vk_live_\" or \"vk_test_\""
  ELSE "API key format is invalid"

\* C28: new VantigeAuth(raw) succeeds exactly for the strings that
\* validateKeyFormat finds valid; otherwise it fails with InvalidApiKey and
\* the message of the first violated rule (required, prefix, shape); the
\* environment of a constructed credential is the one validateKeyFormat
\* reports.
C28_ConstructionAgreesWithValidation ==
  (keyCheck.done /\ authPc \notin {"off", "start"}) =>
    /\ auth.exists <=> keyCheck.isValid
    /\ authPc = "failed" <=> ~keyCheck.isValid
    /\ ~auth.exists =>
         /\ authError.code = "INVALID_API_KEY"
         /\ authError.message = FirstViolatedKeyRule(rawKey)
    /\ auth.exists =>
         /\ authError = NoError
         /\ getEnvironment(auth) = keyCheck.environment
         /\ authPc = "constructed" => auth.apiKey = rawKey

C28_Witness ==
  /\ keyCheck.done
  /\ authPc = "failed"
  /\ rawKey = "vk_test_short"
  /\ authError.message = "API key format is invalid"

(***************************************************************************)
(* Properties of errors made and of the client's construction.             *)
(***************************************************************************)
\* the configuration the VantigeClient constructor is run on
ConstructorInput ==
  IF given.via = "new"
  THEN VantigeConfig(given.apiKey, given.retries, given.timeout)
  ELSE SpreadConfig

\* the constructor was reached: `new` was used, or the factory let the key pass
ConstructorReached ==
  \/ given.via = "new"
  \/ given.via = "createTestClient" /\ StartsWith(given.apiKey, "vk_test_")
  \/ given.via = "createLiveClient" /\ StartsWith(given.apiKey, "vk_live_")

OutOfRange(optional, low, high) ==
  optional.present /\ (optional.value < low \/ optional.value > high)

\* no executor exists and nothing was ever handed to a transport
NoExecutor ==
  /\ config = NoConfig
  /\ calls = { }
  /\ \A c \in Calls : trace[c] = << >> /\ pc[c] = "idle"

\* C22: a construction with a malformed credential, a retry count outside
\* 0..5 or a timeout outside 1000..60000 ms fails with a VantigeSDKError
\* before the executor is created: no client, and no transport invocation
\* ever follows.
C22_BadConfigurationFailsBeforeExecutor ==
  ( /\ ctorPc \in {"constructed", "failed"}
    /\ ConstructorReached
    /\ \/ ~keyPattern(ConstructorInput.apiKey)
       \/ OutOfRange(ConstructorInput.retries, 0, 5)
       \/ OutOfRange(ConstructorInput.timeout, 1000, 60000) )
  => /\ ctorPc = "failed"
     /\ ctorError.code \in {"CONFIGURATION_ERROR", "INVALID_API_KEY"}
     /\ ctorError.message # ""
     /\ ~auth.exists
     /\ NoExecutor

C22_Witness ==
  /\ ctorPc = "failed"
  /\ given.via = "new"
  /\ given.apiKey = ValidTestKey
  /\ given.retries = Supplied(6)
  /\ given.timeout = Absent
  /\ ctorError.code = "CONFIGURATION_ERROR"
  /\ NoExecutor

\* C23: a client constructed with retries = N, N in 0..5, runs a call with
\* budget N: a call whose every attempt fails retryably ends after exactly
\* N + 1 invocations (one for N = 0); with retries omitted, after 3 + 1.
C23_ConfiguredRetriesIsTheBudget ==
  \A c \in calls :
    (ctorPc = "constructed" /\ pc[c] = "Fatal" /\ AllAttemptsFailedRetryable(c)) =>
      Invocations(c) =
        (IF given.retries.present THEN given.retries.value ELSE 3) + 1

\* the status documented for a kind: the README's list of error codes, 408
\* for a timeout, and the fallback 500 for the others
CanonicalStatus(kind) ==
  CASE kind = "INVALID_API_KEY" -> 401
    [] kind = "INSUFFICIENT_PERMISSIONS" -> 403
    [] kind = "KNOWLEDGE_BASE_NOT_FOUND" -> 404
    [] kind = "REQUEST_TIMEOUT" -> 408
    [] kind = "VALIDATION_ERROR" -> 422
    [] kind = "RATE_LIMIT_EXCEEDED" -> 429
    [] kind = "SERVICE_UNAVAILABLE" -> 503
    [] OTHER -> 500

\* C29: createVantigeError(kind) serializes to a record with code = kind,
\* the kind's default message, the kind's default status and an empty
\* details list; a supplied message or status replaces the default.
C29_DefaultsPerKind ==
  errorPc = "made" =>
    /\ errorRecord.code = errorArgs.code
    /\ errorRecord.message =
         (IF errorArgs.message # "" THEN errorArgs.message
          ELSE ErrorMessages[errorArgs.code])
    /\ errorRecord.statusCode =
         (IF errorArgs.statusCode # 0 THEN errorArgs.statusCode
          ELSE CanonicalStatus(errorArgs.code))
    /\ errorArgs.details = DetailsUndefined => errorRecord.details = << >>

\* C30: createTestClient throws InvalidApiKey for every key that does not
\* start with vk_test_, createLiveClient for every key that does not start
\* with vk_live_, and no client is constructed; with a valid key of the
\* matching prefix the client created reports the matching environment.
C30_FactoriesKeepTheEnvironment ==
  /\ ( /\ given.via = "createTestClient"
       /\ ctorPc \in {"constructed", "failed"} )
     => /\ ~StartsWith(given.apiKey, "vk_test_") =>
             (ctorPc = "failed" /\ ctorError.code = "INVALID_API_KEY" /\ NoExecutor)
        /\ (keyPattern(given.apiKey) /\ StartsWith(given.apiKey, "vk_test_")
            /\ ctorPc = "constructed") => getEnvironment(auth) = "test"
  /\ ( /\ given.via = "createLiveClient"
       /\ ctorPc \in {"constructed", "failed"} )
     => /\ ~StartsWith(given.apiKey, "vk_live_") =>
             (ctorPc = "failed" /\ ctorError.code = "INVALID_API_KEY" /\ NoExecutor)
        /\ (keyPattern(given.apiKey) /\ StartsWith(given.apiKey, "vk_live_")
            /\ ctorPc = "constructed") => getEnvironment(auth) = "live"

(***************************************************************************)
(* Properties of the retry executor and the translation pipeline,          *)
(* continued.                                                              *)
(***************************************************************************)
\* C31: within one logical call a backoff delay is awaited only between two
\* attempts: every delay in the call's history directly follows the failure
\* of an attempt with a retryable kind and is directly followed by the next
\* invocation; a call waits for a delay only while budget remains; nothing
\* follows a success or the failure that ends the call; and a call that has
\* ended awaited one delay less than it made transport invocations.
C31_DelaysOnlyBetweenAttempts ==
  \A c \in calls :
    LET t == trace[c] IN
    /\ \A i \in DOMAIN t :
         t[i].ev = "delay" =>
           /\ i > 1
           /\ t[i - 1].ev = "reject"
           /\ ~t[i - 1].callerFixable
           /\ i < Len(t)
           /\ t[i + 1].ev = "invoke"
    /\ \A i \in DOMAIN t :
         (t[i].ev = "resolve" \/ (t[i].ev = "reject" /\ t[i].callerFixable))
           => i = Len(t)
    /\ pc[c] = "Retryable" =>
         /\ Invocations(c) <= config.retries
         /\ t[Len(t)].ev = "reject"
    /\ timer[c] > 0 => pc[c] = "Retryable"
    /\ pc[c] \in Terminal =>
         /\ Count(t, "delay") = Invocations(c) - 1
         /\ t[Len(t)].ev \in {"resolve", "reject"}
         /\ timer[c] = 0

C31_Witness ==
  \E c \in calls :
    /\ config.retries = 2
    /\ pc[c] = "Fatal"
    /\ Invocations(c) = 3
    /\ Delays(trace[c]) = << 1000, 2000 >>
    /\ trace[c][Len(trace[c])].ev = "reject"

C33_MessagePreference ==
  (Translated /\ failure.kind = "axios" /\ failure.hasResponse) =>
    classified.message =
      IF failure.data.errorMessage # "" THEN failure.data.errorMessage
      ELSE IF failure.data.message # "" THEN failure.data.message
      ELSE failure.message

C33_Witness ==
  /\ classifyPc = "intercepted"
  /\ failure.kind = "axios"
  /\ failure.hasResponse
  /\ failure.data.errorMessage = "nested message"
  /\ failure.data.message = "top-level message"
  /\ classified.message = "nested message"

\* kind, message, status, details and correlation id of an error
Outcome(e) == << e.code, e.message, e.statusCode, e.details, e.requestId >>

\* C34: for every raw failure the retry loop ends up with the same error
\* (kind, message, status, details, correlation id) and takes the same
\* decision at every attempt and budget, hence invokes the transport as
\* often, whether the interceptor translated the failure first and the loop
\* passed it through or the raw failure reached the loop directly.
C34_InterceptorDoesNotChangeOutcome ==
  LET viaInterceptor == IF classifyPc = "caught" THEN reclassified
                        ELSE Classify(SdkFailure(handleError(failure)))
      direct == IF classifyPc = "caughtRaw" THEN reclassified
                ELSE Classify(failure)
  IN classifyPc \in {"caught", "caughtRaw"} =>
       /\ Outcome(viaInterceptor) = Outcome(direct)
       /\ \A r \in RetriesMin..RetriesMax : \A a \in 0..r :
            CatchDecision(viaInterceptor, a, r) = CatchDecision(direct, a, r)

C34_Witness ==
  /\ classifyPc = "caught"
  /\ failure.kind = "axios"
  /\ failure.hasResponse
  /\ failure.status = 429
  /\ failure.data.errorDetails = DetailsArray(<< "a", "b" >>)
  /\ reclassified.code = "RATE_LIMIT_EXCEEDED"
  /\ reclassified.details = << "a", "b" >>
  /\ reclassified.requestId = "req-meta"

\* C35: the constructor checks the configuration schema before it
\* constructs the credential: a key without a recognized prefix, the empty
\* key included, fails with CONFIGURATION_ERROR; the constructor raises
\* INVALID_API_KEY only for a key with a recognized prefix that fails the
\* shape rule; either failure is a VantigeSDKError of the taxonomy and
\* leaves no credential and no executor.
C35_SchemaCheckedBeforeCredential ==
  LET apiKey == ConstructorInput.apiKey
      prefixed == \/ StartsWith(apiKey, "vk_live_")
                  \/ StartsWith(apiKey, "vk_test_")
  IN (ctorPc \in {"constructed", "failed"} /\ ConstructorReached) =>
       /\ ~prefixed =>
            /\ ctorPc = "failed"
            /\ ctorError.code = "CONFIGURATION_ERROR"
       /\ (ctorPc = "failed" /\ ctorError.code = "INVALID_API_KEY") =>
            /\ prefixed
            /\ ~keyPattern(apiKey)
       /\ ctorPc = "failed" =>
            /\ ctorError.code \in VantigeErrorCode
            /\ ctorError.timestamp = "now"
            /\ ~auth.exists
            /\ NoExecutor

C35_Witness ==
  /\ ctorPc = "failed"
  /\ given.via = "new"
  /\ given.apiKey = "invalid_key"
  /\ given.retries = Absent
  /\ given.timeout = Absent
  /\ ctorError.code = "CONFIGURATION_ERROR"
  /\ ctorError.details = << "ZodError" >>
  /\ NoExecutor

(***************************************************************************)
(* What the redacted form of a credential reveals.                         *)
(***************************************************************************)
\* the strings of the same length as k that agree with k on the first 8 and
\* the last 4 characters
SameOutside(k) ==
  { other \in Keys :
      /\ Len(other) = Len(k)
      /\ SubSeq(other, 1, 8) = SubSeq(k, 1, 8)
      /\ SubSeq(other, Len(other) - 3, Len(other)) = SubSeq(k, Len(k) - 3, Len(k)) }

\* C38: the redacted form of a held string of 12 characters or more depends
\* only on its length, its first 8 and its last 4 characters: every string
\* of the same length that agrees on these, whatever its interior, is
\* redacted to the same output, and the output holds no interior character.
C38_MaskRevealsOnlyPrefixSuffixLength ==
  (authPc = "masked" /\ Len(auth.apiKey) >= 12) =>
    /\ \A other \in SameOutside(auth.apiKey) : maskApiKey(other) = masked
    /\ \A i \in 9..(Len(masked) - 4) : CharAt(masked, i) = "*"

C38_Witness ==
  /\ authPc = "masked"
  /\ auth.apiKey = "vk_test_bbbbbbbbbbbbbbbbbbbbbbbbbbbb3456"
  /\ "vk_test_abcdefghijklmnopqrstuvwxyz123456" \in SameOutside(auth.apiKey)
  /\ masked = "vk_test_****************************3456"

(***************************************************************************)
(* Properties of testConnection.                                           *)
(***************************************************************************)
\* C36: testConnection performs one list call with limit = 1 through the
\* retry executor; when that call fails, whether the executor raised an
\* error (a non-retryable INVALID_API_KEY included) or the body has success
\* false, testConnection raises NETWORK_ERROR whose details hold exactly
\* the original error; when it succeeds testConnection returns success true
\* and the environment of the credential.
C36_TestConnectionWrapsEveryFailure ==
  /\ clientPc # "idle" =>
       /\ sent.method = "get"
       /\ sent.url = "/api/v1/knowledge-base?limit=1"
       /\ calls = {1}
       /\ Invocations(1) >= 1
       /\ Invocations(1) <= config.retries + 1
  /\ clientPc \in {"thrown", "returned"} =>
       /\ pc[1] \in Terminal
       /\ clientPc = "thrown"
            <=> (pc[1] = "Fatal" \/ (pc[1] = "Success" /\ ~result[1].success))
  /\ clientPc = "thrown" =>
       /\ clientError.code = "NETWORK_ERROR"
       /\ Len(clientError.details) = 1
       /\ pc[1] = "Fatal" => clientError.details[1] = raised[1]
       /\ pc[1] = "Success" =>
            /\ clientError.details[1].code = "SERVICE_UNAVAILABLE"
            /\ clientError.details[1].message = "Failed to list knowledge bases"
  /\ clientPc = "returned" =>
       /\ clientResult.success
       /\ clientResult.environment =
            (IF SubSeq(rawKey, 1, 8) = "vk_test_" THEN "test" ELSE "live")

C36_Witness ==
  /\ clientPc = "thrown"
  /\ pc[1] = "Fatal"
  /\ raised[1].code = "INVALID_API_KEY"
  /\ Invocations(1) = 1
  /\ clientError.code = "NETWORK_ERROR"
  /\ clientError.message = "Failed to connect to Vantige API"
  /\ clientError.details = << raised[1] >>

(***************************************************************************)
(* Properties of createKnowledgeBaseTools.                                 *)
(***************************************************************************)
\* the keys of the object returned
ToolKeys == { entry.key : entry \in tools }

\* the key of the i-th knowledge base: the kebab-case form of its name or,
\* when that is empty, "knowledge-base-" and its id
KeyOf(i) ==
  IF toKebabCase(knowledgeBases[i].name) # ""
  THEN toKebabCase(knowledgeBases[i].name)
  ELSE "knowledge-base-" \o knowledgeBases[i].id

\* C37: createKnowledgeBaseTools returns one tool per knowledge base: the
\* object returned has as many tools as the list has knowledge bases, the
\* tool of each knowledge base is found under the kebab-case form of its
\* name or, when that is empty, under "knowledge-base-" and its id, and no
\* two knowledge bases share a key.
C37_OneToolPerKnowledgeBase ==
  toolsPc = "returned" =>
    /\ Cardinality(tools) = Len(knowledgeBases)
    /\ \A i \in DOMAIN knowledgeBases :
         \E entry \in tools :
           /\ entry.key = KeyOf(i)
           /\ entry.tool.queries = knowledgeBases[i].id
    /\ \A i, j \in DOMAIN knowledgeBases : i # j => KeyOf(i) # KeyOf(j)

====
